---- MODULE Spec2Model ----
(***************************************************************************)
(* A model of quirks.py: Quirk, Omnipod, Battlemech, Omnimech and the two  *)
(* table-writing batch functions.                                          *)
(*                                                                         *)
(* Python strings are sequences of character codes, so that the name       *)
(* ordering (Quirk.__lt__), the substring tests ('HARDPOINTS' in name, the *)
(* non-percent keywords) and the string formatting are computed as the     *)
(* code computes them; str.upper, str.lower, int and float follow CPython   *)
(* 3.11 (Unicode 14), float(x) * 100 is computed on IEEE 754 doubles.  A dict *)
(* is the sequence of its items in insertion order.  A Python exception is  *)
(* the name of its class.                                                   *)
(***************************************************************************)
EXTENDS Integers, Sequences, FiniteSets, TLC

\* ------------------------------------------------------------------ bounds
\* Longest raw quirk list of the pod built by the Omnipod specification.
MaxQuirks == 2
\* Most raw hardpoint entries (over all sub-dicts) of that pod.
MaxHardpointEntries == 2
\* Most variants of a unit.
NumVariants == 2
\* Most raw quirk records, over all variants, of a Battlemech chassis.
MaxChassisQuirks == 4
\* Most calls of _build_matrix on one object.
MaxCalls == 2
\* Most raw records, over all pods, of an Omnimech: its quirk records, and
\* one more when it has hardpoints.
MaxUnitQuirks == 3
\* Most units (pod sets, mech records) of a batch.
MaxUnits == 2

\* ----------------------------------------------------------------- strings
RECURSIVE StrLess(_, _)
\* Python's str.__lt__: lexicographic order on code points.
StrLess(a, b) ==
  IF b = << >> THEN FALSE
  ELSE IF a = << >> THEN TRUE
  ELSE IF Head(a) # Head(b) THEN Head(a) < Head(b)
  ELSE StrLess(Tail(a), Tail(b))

\* Python's `sub in s` on strings.
Contains(s, sub) ==
  \E i \in 1..(Len(s) - Len(sub) + 1) : SubSeq(s, i, i + Len(sub) - 1) = sub

RECURSIVE Join(_, _)
\* Python's sep.join(parts).
Join(parts, sep) ==
  IF parts = << >> THEN << >>
  ELSE IF Len(parts) = 1 THEN parts[1]
  ELSE parts[1] \o sep \o Join(Tail(parts), sep)

\* --------------------------------------------------- tables of str.upper, ...
\* str.upper() of one code point, where it is one code point: for c in
\* first, first + step .. last the result is c + delta.  (Unicode 14, the
\* tables of CPython 3.11.)
UpperRanges ==
  << <<97, 122, 1, -32>>, <<181, 181, 1, 743>>, <<224, 246, 1, -32>>,
     <<248, 254, 1, -32>>, <<255, 255, 1, 121>>, <<257, 303, 2, -1>>,
     <<305, 305, 1, -232>>, <<307, 311, 2, -1>>, <<314, 328, 2, -1>>,
     <<331, 375, 2, -1>>, <<378, 382, 2, -1>>, <<383, 383, 1, -300>>,
     <<384, 384, 1, 195>>, <<387, 389, 2, -1>>, <<392, 392, 1, -1>>,
     <<396, 396, 1, -1>>, <<402, 402, 1, -1>>, <<405, 405, 1, 97>>, <<409, 409, 1, -1>>,
     <<410, 410, 1, 163>>, <<414, 414, 1, 130>>, <<417, 421, 2, -1>>,
     <<424, 424, 1, -1>>, <<429, 429, 1, -1>>, <<432, 432, 1, -1>>, <<436, 438, 2, -1>>,
     <<441, 441, 1, -1>>, <<445, 445, 1, -1>>, <<447, 447, 1, 56>>, <<453, 453, 1, -1>>,
     <<454, 454, 1, -2>>, <<456, 456, 1, -1>>, <<457, 457, 1, -2>>, <<459, 459, 1, -1>>,
     <<460, 460, 1, -2>>, <<462, 476, 2, -1>>, <<477, 477, 1, -79>>,
     <<479, 495, 2, -1>>, <<498, 498, 1, -1>>, <<499, 499, 1, -2>>, <<501, 501, 1, -1>>,
     <<505, 543, 2, -1>>, <<547, 563, 2, -1>>, <<572, 572, 1, -1>>,
     <<575, 576, 1, 10815>>, <<578, 578, 1, -1>>, <<583, 591, 2, -1>>,
     <<592, 592, 1, 10783>>, <<593, 593, 1, 10780>>, <<594, 594, 1, 10782>>,
     <<595, 595, 1, -210>>, <<596, 596, 1, -206>>, <<598, 599, 1, -205>>,
     <<601, 601, 1, -202>>, <<603, 603, 1, -203>>, <<604, 604, 1, 42319>>,
     <<608, 608, 1, -205>>, <<609, 609, 1, 42315>>, <<611, 611, 1, -207>>,
     <<613, 613, 1, 42280>>, <<614, 614, 1, 42308>>, <<616, 616, 1, -209>>,
     <<617, 617, 1, -211>>, <<618, 618, 1, 42308>>, <<619, 619, 1, 10743>>,
     <<620, 620, 1, 42305>>, <<623, 623, 1, -211>>, <<625, 625, 1, 10749>>,
     <<626, 626, 1, -213>>, <<629, 629, 1, -214>>, <<637, 637, 1, 10727>>,
     <<640, 640, 1, -218>>, <<642, 642, 1, 42307>>, <<643, 643, 1, -218>>,
     <<647, 647, 1, 42282>>, <<648, 648, 1, -218>>, <<649, 649, 1, -69>>,
     <<650, 651, 1, -217>>, <<652, 652, 1, -71>>, <<658, 658, 1, -219>>,
     <<669, 669, 1, 42261>>, <<670, 670, 1, 42258>>, <<837, 837, 1, 84>>,
     <<881, 883, 2, -1>>, <<887, 887, 1, -1>>, <<891, 893, 1, 130>>,
     <<940, 940, 1, -38>>, <<941, 943, 1, -37>>, <<945, 961, 1, -32>>,
     <<962, 962, 1, -31>>, <<963, 971, 1, -32>>, <<972, 972, 1, -64>>,
     <<973, 974, 1, -63>>, <<976, 976, 1, -62>>, <<977, 977, 1, -57>>,
     <<981, 981, 1, -47>>, <<982, 982, 1, -54>>, <<983, 983, 1, -8>>,
     <<985, 1007, 2, -1>>, <<1008, 1008, 1, -86>>, <<1009, 1009, 1, -80>>,
     <<1010, 1010, 1, 7>>, <<1011, 1011, 1, -116>>, <<1013, 1013, 1, -96>>,
     <<1016, 1016, 1, -1>>, <<1019, 1019, 1, -1>>, <<1072, 1103, 1, -32>>,
     <<1104, 1119, 1, -80>>, <<1121, 1153, 2, -1>>, <<1163, 1215, 2, -1>>,
     <<1218, 1230, 2, -1>>, <<1231, 1231, 1, -15>>, <<1233, 1327, 2, -1>>,
     <<1377, 1414, 1, -48>>, <<4304, 4346, 1, 3008>>, <<4349, 4351, 1, 3008>>,
     <<5112, 5117, 1, -8>>, <<7296, 7296, 1, -6254>>, <<7297, 7297, 1, -6253>>,
     <<7298, 7298, 1, -6244>>, <<7299, 7300, 1, -6242>>, <<7301, 7301, 1, -6243>>,
     <<7302, 7302, 1, -6236>>, <<7303, 7303, 1, -6181>>, <<7304, 7304, 1, 35266>>,
     <<7545, 7545, 1, 35332>>, <<7549, 7549, 1, 3814>>, <<7566, 7566, 1, 35384>>,
     <<7681, 7829, 2, -1>>, <<7835, 7835, 1, -59>>, <<7841, 7935, 2, -1>>,
     <<7936, 7943, 1, 8>>, <<7952, 7957, 1, 8>>, <<7968, 7975, 1, 8>>,
     <<7984, 7991, 1, 8>>, <<8000, 8005, 1, 8>>, <<8017, 8023, 2, 8>>,
     <<8032, 8039, 1, 8>>, <<8048, 8049, 1, 74>>, <<8050, 8053, 1, 86>>,
     <<8054, 8055, 1, 100>>, <<8056, 8057, 1, 128>>, <<8058, 8059, 1, 112>>,
     <<8060, 8061, 1, 126>>, <<8112, 8113, 1, 8>>, <<8126, 8126, 1, -7205>>,
     <<8144, 8145, 1, 8>>, <<8160, 8161, 1, 8>>, <<8165, 8165, 1, 7>>,
     <<8526, 8526, 1, -28>>, <<8560, 8575, 1, -16>>, <<8580, 8580, 1, -1>>,
     <<9424, 9449, 1, -26>>, <<11312, 11359, 1, -48>>, <<11361, 11361, 1, -1>>,
     <<11365, 11365, 1, -10795>>, <<11366, 11366, 1, -10792>>, <<11368, 11372, 2, -1>>,
     <<11379, 11379, 1, -1>>, <<11382, 11382, 1, -1>>, <<11393, 11491, 2, -1>>,
     <<11500, 11502, 2, -1>>, <<11507, 11507, 1, -1>>, <<11520, 11557, 1, -7264>>,
     <<11559, 11559, 1, -7264>>, <<11565, 11565, 1, -7264>>, <<42561, 42605, 2, -1>>,
     <<42625, 42651, 2, -1>>, <<42787, 42799, 2, -1>>, <<42803, 42863, 2, -1>>,
     <<42874, 42876, 2, -1>>, <<42879, 42887, 2, -1>>, <<42892, 42892, 1, -1>>,
     <<42897, 42899, 2, -1>>, <<42900, 42900, 1, 48>>, <<42903, 42921, 2, -1>>,
     <<42933, 42947, 2, -1>>, <<42952, 42954, 2, -1>>, <<42961, 42961, 1, -1>>,
     <<42967, 42969, 2, -1>>, <<42998, 42998, 1, -1>>, <<43859, 43859, 1, -928>>,
     <<43888, 43967, 1, -38864>>, <<65345, 65370, 1, -32>>, <<66600, 66639, 1, -40>>,
     <<66776, 66811, 1, -40>>, <<66967, 67003, 2, -39>>, <<66968, 66976, 2, -39>>,
     <<66980, 66992, 2, -39>>, <<66996, 67000, 2, -39>>, <<67004, 67004, 1, -39>>,
     <<68800, 68850, 1, -64>>, <<71872, 71903, 1, -32>>, <<93792, 93823, 1, -32>>,
     <<125218, 125251, 1, -34>> >>

\* The code points whose str.upper() is more than one code point.
UpperSpecial ==
  << <<223, <<83, 83>>>>, <<329, <<700, 78>>>>, <<496, <<74, 780>>>>,
     <<912, <<921, 776, 769>>>>, <<944, <<933, 776, 769>>>>, <<1415, <<1333, 1362>>>>,
     <<7830, <<72, 817>>>>, <<7831, <<84, 776>>>>, <<7832, <<87, 778>>>>,
     <<7833, <<89, 778>>>>, <<7834, <<65, 702>>>>, <<8016, <<933, 787>>>>,
     <<8018, <<933, 787, 768>>>>, <<8020, <<933, 787, 769>>>>,
     <<8022, <<933, 787, 834>>>>, <<8064, <<7944, 921>>>>, <<8065, <<7945, 921>>>>,
     <<8066, <<7946, 921>>>>, <<8067, <<7947, 921>>>>, <<8068, <<7948, 921>>>>,
     <<8069, <<7949, 921>>>>, <<8070, <<7950, 921>>>>, <<8071, <<7951, 921>>>>,
     <<8072, <<7944, 921>>>>, <<8073, <<7945, 921>>>>, <<8074, <<7946, 921>>>>,
     <<8075, <<7947, 921>>>>, <<8076, <<7948, 921>>>>, <<8077, <<7949, 921>>>>,
     <<8078, <<7950, 921>>>>, <<8079, <<7951, 921>>>>, <<8080, <<7976, 921>>>>,
     <<8081, <<7977, 921>>>>, <<8082, <<7978, 921>>>>, <<8083, <<7979, 921>>>>,
     <<8084, <<7980, 921>>>>, <<8085, <<7981, 921>>>>, <<8086, <<7982, 921>>>>,
     <<8087, <<7983, 921>>>>, <<8088, <<7976, 921>>>>, <<8089, <<7977, 921>>>>,
     <<8090, <<7978, 921>>>>, <<8091, <<7979, 921>>>>, <<8092, <<7980, 921>>>>,
     <<8093, <<7981, 921>>>>, <<8094, <<7982, 921>>>>, <<8095, <<7983, 921>>>>,
     <<8096, <<8040, 921>>>>, <<8097, <<8041, 921>>>>, <<8098, <<8042, 921>>>>,
     <<8099, <<8043, 921>>>>, <<8100, <<8044, 921>>>>, <<8101, <<8045, 921>>>>,
     <<8102, <<8046, 921>>>>, <<8103, <<8047, 921>>>>, <<8104, <<8040, 921>>>>,
     <<8105, <<8041, 921>>>>, <<8106, <<8042, 921>>>>, <<8107, <<8043, 921>>>>,
     <<8108, <<8044, 921>>>>, <<8109, <<8045, 921>>>>, <<8110, <<8046, 921>>>>,
     <<8111, <<8047, 921>>>>, <<8114, <<8122, 921>>>>, <<8115, <<913, 921>>>>,
     <<8116, <<902, 921>>>>, <<8118, <<913, 834>>>>, <<8119, <<913, 834, 921>>>>,
     <<8124, <<913, 921>>>>, <<8130, <<8138, 921>>>>, <<8131, <<919, 921>>>>,
     <<8132, <<905, 921>>>>, <<8134, <<919, 834>>>>, <<8135, <<919, 834, 921>>>>,
     <<8140, <<919, 921>>>>, <<8146, <<921, 776, 768>>>>, <<8147, <<921, 776, 769>>>>,
     <<8150, <<921, 834>>>>, <<8151, <<921, 776, 834>>>>, <<8162, <<933, 776, 768>>>>,
     <<8163, <<933, 776, 769>>>>, <<8164, <<929, 787>>>>, <<8166, <<933, 834>>>>,
     <<8167, <<933, 776, 834>>>>, <<8178, <<8186, 921>>>>, <<8179, <<937, 921>>>>,
     <<8180, <<911, 921>>>>, <<8182, <<937, 834>>>>, <<8183, <<937, 834, 921>>>>,
     <<8188, <<937, 921>>>>, <<64256, <<70, 70>>>>, <<64257, <<70, 73>>>>,
     <<64258, <<70, 76>>>>, <<64259, <<70, 70, 73>>>>, <<64260, <<70, 70, 76>>>>,
     <<64261, <<83, 84>>>>, <<64262, <<83, 84>>>>, <<64275, <<1348, 1350>>>>,
     <<64276, <<1348, 1333>>>>, <<64277, <<1348, 1339>>>>, <<64278, <<1358, 1350>>>>,
     <<64279, <<1348, 1341>>>> >>

\* str.lower() of one code point, as UpperRanges; U+03A3 is not in the table.
LowerRanges ==
  << <<65, 90, 1, 32>>, <<192, 214, 1, 32>>, <<216, 222, 1, 32>>, <<256, 302, 2, 1>>,
     <<306, 310, 2, 1>>, <<313, 327, 2, 1>>, <<330, 374, 2, 1>>, <<376, 376, 1, -121>>,
     <<377, 381, 2, 1>>, <<385, 385, 1, 210>>, <<386, 388, 2, 1>>, <<390, 390, 1, 206>>,
     <<391, 391, 1, 1>>, <<393, 394, 1, 205>>, <<395, 395, 1, 1>>, <<398, 398, 1, 79>>,
     <<399, 399, 1, 202>>, <<400, 400, 1, 203>>, <<401, 401, 1, 1>>,
     <<403, 403, 1, 205>>, <<404, 404, 1, 207>>, <<406, 406, 1, 211>>,
     <<407, 407, 1, 209>>, <<408, 408, 1, 1>>, <<412, 412, 1, 211>>,
     <<413, 413, 1, 213>>, <<415, 415, 1, 214>>, <<416, 420, 2, 1>>,
     <<422, 422, 1, 218>>, <<423, 423, 1, 1>>, <<425, 425, 1, 218>>, <<428, 428, 1, 1>>,
     <<430, 430, 1, 218>>, <<431, 431, 1, 1>>, <<433, 434, 1, 217>>, <<435, 437, 2, 1>>,
     <<439, 439, 1, 219>>, <<440, 440, 1, 1>>, <<444, 444, 1, 1>>, <<452, 452, 1, 2>>,
     <<453, 453, 1, 1>>, <<455, 455, 1, 2>>, <<456, 456, 1, 1>>, <<458, 458, 1, 2>>,
     <<459, 475, 2, 1>>, <<478, 494, 2, 1>>, <<497, 497, 1, 2>>, <<498, 500, 2, 1>>,
     <<502, 502, 1, -97>>, <<503, 503, 1, -56>>, <<504, 542, 2, 1>>,
     <<544, 544, 1, -130>>, <<546, 562, 2, 1>>, <<570, 570, 1, 10795>>,
     <<571, 571, 1, 1>>, <<573, 573, 1, -163>>, <<574, 574, 1, 10792>>,
     <<577, 577, 1, 1>>, <<579, 579, 1, -195>>, <<580, 580, 1, 69>>,
     <<581, 581, 1, 71>>, <<582, 590, 2, 1>>, <<880, 882, 2, 1>>, <<886, 886, 1, 1>>,
     <<895, 895, 1, 116>>, <<902, 902, 1, 38>>, <<904, 906, 1, 37>>,
     <<908, 908, 1, 64>>, <<910, 911, 1, 63>>, <<913, 929, 1, 32>>, <<932, 939, 1, 32>>,
     <<975, 975, 1, 8>>, <<984, 1006, 2, 1>>, <<1012, 1012, 1, -60>>,
     <<1015, 1015, 1, 1>>, <<1017, 1017, 1, -7>>, <<1018, 1018, 1, 1>>,
     <<1021, 1023, 1, -130>>, <<1024, 1039, 1, 80>>, <<1040, 1071, 1, 32>>,
     <<1120, 1152, 2, 1>>, <<1162, 1214, 2, 1>>, <<1216, 1216, 1, 15>>,
     <<1217, 1229, 2, 1>>, <<1232, 1326, 2, 1>>, <<1329, 1366, 1, 48>>,
     <<4256, 4293, 1, 7264>>, <<4295, 4295, 1, 7264>>, <<4301, 4301, 1, 7264>>,
     <<5024, 5103, 1, 38864>>, <<5104, 5109, 1, 8>>, <<7312, 7354, 1, -3008>>,
     <<7357, 7359, 1, -3008>>, <<7680, 7828, 2, 1>>, <<7838, 7838, 1, -7615>>,
     <<7840, 7934, 2, 1>>, <<7944, 7951, 1, -8>>, <<7960, 7965, 1, -8>>,
     <<7976, 7983, 1, -8>>, <<7992, 7999, 1, -8>>, <<8008, 8013, 1, -8>>,
     <<8025, 8031, 2, -8>>, <<8040, 8047, 1, -8>>, <<8072, 8079, 1, -8>>,
     <<8088, 8095, 1, -8>>, <<8104, 8111, 1, -8>>, <<8120, 8121, 1, -8>>,
     <<8122, 8123, 1, -74>>, <<8124, 8124, 1, -9>>, <<8136, 8139, 1, -86>>,
     <<8140, 8140, 1, -9>>, <<8152, 8153, 1, -8>>, <<8154, 8155, 1, -100>>,
     <<8168, 8169, 1, -8>>, <<8170, 8171, 1, -112>>, <<8172, 8172, 1, -7>>,
     <<8184, 8185, 1, -128>>, <<8186, 8187, 1, -126>>, <<8188, 8188, 1, -9>>,
     <<8486, 8486, 1, -7517>>, <<8490, 8490, 1, -8383>>, <<8491, 8491, 1, -8262>>,
     <<8498, 8498, 1, 28>>, <<8544, 8559, 1, 16>>, <<8579, 8579, 1, 1>>,
     <<9398, 9423, 1, 26>>, <<11264, 11311, 1, 48>>, <<11360, 11360, 1, 1>>,
     <<11362, 11362, 1, -10743>>, <<11363, 11363, 1, -3814>>,
     <<11364, 11364, 1, -10727>>, <<11367, 11371, 2, 1>>, <<11373, 11373, 1, -10780>>,
     <<11374, 11374, 1, -10749>>, <<11375, 11375, 1, -10783>>,
     <<11376, 11376, 1, -10782>>, <<11378, 11378, 1, 1>>, <<11381, 11381, 1, 1>>,
     <<11390, 11391, 1, -10815>>, <<11392, 11490, 2, 1>>, <<11499, 11501, 2, 1>>,
     <<11506, 11506, 1, 1>>, <<42560, 42604, 2, 1>>, <<42624, 42650, 2, 1>>,
     <<42786, 42798, 2, 1>>, <<42802, 42862, 2, 1>>, <<42873, 42875, 2, 1>>,
     <<42877, 42877, 1, -35332>>, <<42878, 42886, 2, 1>>, <<42891, 42891, 1, 1>>,
     <<42893, 42893, 1, -42280>>, <<42896, 42898, 2, 1>>, <<42902, 42920, 2, 1>>,
     <<42922, 42922, 1, -42308>>, <<42923, 42923, 1, -42319>>,
     <<42924, 42924, 1, -42315>>, <<42925, 42925, 1, -42305>>,
     <<42926, 42926, 1, -42308>>, <<42928, 42928, 1, -42258>>,
     <<42929, 42929, 1, -42282>>, <<42930, 42930, 1, -42261>>, <<42931, 42931, 1, 928>>,
     <<42932, 42946, 2, 1>>, <<42948, 42948, 1, -48>>, <<42949, 42949, 1, -42307>>,
     <<42950, 42950, 1, -35384>>, <<42951, 42953, 2, 1>>, <<42960, 42960, 1, 1>>,
     <<42966, 42968, 2, 1>>, <<42997, 42997, 1, 1>>, <<65313, 65338, 1, 32>>,
     <<66560, 66599, 1, 40>>, <<66736, 66771, 1, 40>>, <<66928, 66964, 2, 39>>,
     <<66929, 66937, 2, 39>>, <<66941, 66953, 2, 39>>, <<66957, 66961, 2, 39>>,
     <<66965, 66965, 1, 39>>, <<68736, 68786, 1, 64>>, <<71840, 71871, 1, 32>>,
     <<93760, 93791, 1, 32>>, <<125184, 125217, 1, 34>> >>

\* The code points whose str.lower() is more than one code point.
LowerSpecial ==
  << <<304, <<105, 775>>>> >>

\* The case-ignorable code points, as ranges <<first, last>>.
CaseIgnorable ==
  << <<39, 39>>, <<46, 46>>, <<58, 58>>, <<94, 94>>, <<96, 96>>, <<168, 168>>,
     <<173, 173>>, <<175, 175>>, <<180, 180>>, <<183, 184>>, <<688, 879>>, <<884, 885>>,
     <<890, 890>>, <<900, 901>>, <<903, 903>>, <<1155, 1161>>, <<1369, 1369>>,
     <<1375, 1375>>, <<1425, 1469>>, <<1471, 1471>>, <<1473, 1474>>, <<1476, 1477>>,
     <<1479, 1479>>, <<1524, 1524>>, <<1536, 1541>>, <<1552, 1562>>, <<1564, 1564>>,
     <<1600, 1600>>, <<1611, 1631>>, <<1648, 1648>>, <<1750, 1757>>, <<1759, 1768>>,
     <<1770, 1773>>, <<1807, 1807>>, <<1809, 1809>>, <<1840, 1866>>, <<1958, 1968>>,
     <<2027, 2037>>, <<2042, 2042>>, <<2045, 2045>>, <<2070, 2093>>, <<2137, 2139>>,
     <<2184, 2184>>, <<2192, 2193>>, <<2200, 2207>>, <<2249, 2306>>, <<2362, 2362>>,
     <<2364, 2364>>, <<2369, 2376>>, <<2381, 2381>>, <<2385, 2391>>, <<2402, 2403>>,
     <<2417, 2417>>, <<2433, 2433>>, <<2492, 2492>>, <<2497, 2500>>, <<2509, 2509>>,
     <<2530, 2531>>, <<2558, 2558>>, <<2561, 2562>>, <<2620, 2620>>, <<2625, 2626>>,
     <<2631, 2632>>, <<2635, 2637>>, <<2641, 2641>>, <<2672, 2673>>, <<2677, 2677>>,
     <<2689, 2690>>, <<2748, 2748>>, <<2753, 2757>>, <<2759, 2760>>, <<2765, 2765>>,
     <<2786, 2787>>, <<2810, 2815>>, <<2817, 2817>>, <<2876, 2876>>, <<2879, 2879>>,
     <<2881, 2884>>, <<2893, 2893>>, <<2901, 2902>>, <<2914, 2915>>, <<2946, 2946>>,
     <<3008, 3008>>, <<3021, 3021>>, <<3072, 3072>>, <<3076, 3076>>, <<3132, 3132>>,
     <<3134, 3136>>, <<3142, 3144>>, <<3146, 3149>>, <<3157, 3158>>, <<3170, 3171>>,
     <<3201, 3201>>, <<3260, 3260>>, <<3263, 3263>>, <<3270, 3270>>, <<3276, 3277>>,
     <<3298, 3299>>, <<3328, 3329>>, <<3387, 3388>>, <<3393, 3396>>, <<3405, 3405>>,
     <<3426, 3427>>, <<3457, 3457>>, <<3530, 3530>>, <<3538, 3540>>, <<3542, 3542>>,
     <<3633, 3633>>, <<3636, 3642>>, <<3654, 3662>>, <<3761, 3761>>, <<3764, 3772>>,
     <<3782, 3782>>, <<3784, 3789>>, <<3864, 3865>>, <<3893, 3893>>, <<3895, 3895>>,
     <<3897, 3897>>, <<3953, 3966>>, <<3968, 3972>>, <<3974, 3975>>, <<3981, 3991>>,
     <<3993, 4028>>, <<4038, 4038>>, <<4141, 4144>>, <<4146, 4151>>, <<4153, 4154>>,
     <<4157, 4158>>, <<4184, 4185>>, <<4190, 4192>>, <<4209, 4212>>, <<4226, 4226>>,
     <<4229, 4230>>, <<4237, 4237>>, <<4253, 4253>>, <<4348, 4348>>, <<4957, 4959>>,
     <<5906, 5908>>, <<5938, 5939>>, <<5970, 5971>>, <<6002, 6003>>, <<6068, 6069>>,
     <<6071, 6077>>, <<6086, 6086>>, <<6089, 6099>>, <<6103, 6103>>, <<6109, 6109>>,
     <<6155, 6159>>, <<6211, 6211>>, <<6277, 6278>>, <<6313, 6313>>, <<6432, 6434>>,
     <<6439, 6440>>, <<6450, 6450>>, <<6457, 6459>>, <<6679, 6680>>, <<6683, 6683>>,
     <<6742, 6742>>, <<6744, 6750>>, <<6752, 6752>>, <<6754, 6754>>, <<6757, 6764>>,
     <<6771, 6780>>, <<6783, 6783>>, <<6823, 6823>>, <<6832, 6862>>, <<6912, 6915>>,
     <<6964, 6964>>, <<6966, 6970>>, <<6972, 6972>>, <<6978, 6978>>, <<7019, 7027>>,
     <<7040, 7041>>, <<7074, 7077>>, <<7080, 7081>>, <<7083, 7085>>, <<7142, 7142>>,
     <<7144, 7145>>, <<7149, 7149>>, <<7151, 7153>>, <<7212, 7219>>, <<7222, 7223>>,
     <<7288, 7293>>, <<7376, 7378>>, <<7380, 7392>>, <<7394, 7400>>, <<7405, 7405>>,
     <<7412, 7412>>, <<7416, 7417>>, <<7468, 7530>>, <<7544, 7544>>, <<7579, 7679>>,
     <<8125, 8125>>, <<8127, 8129>>, <<8141, 8143>>, <<8157, 8159>>, <<8173, 8175>>,
     <<8189, 8190>>, <<8203, 8207>>, <<8216, 8217>>, <<8228, 8228>>, <<8231, 8231>>,
     <<8234, 8238>>, <<8288, 8292>>, <<8294, 8303>>, <<8305, 8305>>, <<8319, 8319>>,
     <<8336, 8348>>, <<8400, 8432>>, <<11388, 11389>>, <<11503, 11505>>,
     <<11631, 11631>>, <<11647, 11647>>, <<11744, 11775>>, <<11823, 11823>>,
     <<12293, 12293>>, <<12330, 12333>>, <<12337, 12341>>, <<12347, 12347>>,
     <<12441, 12446>>, <<12540, 12542>>, <<40981, 40981>>, <<42232, 42237>>,
     <<42508, 42508>>, <<42607, 42610>>, <<42612, 42621>>, <<42623, 42623>>,
     <<42652, 42655>>, <<42736, 42737>>, <<42752, 42785>>, <<42864, 42864>>,
     <<42888, 42890>>, <<42994, 42996>>, <<43000, 43001>>, <<43010, 43010>>,
     <<43014, 43014>>, <<43019, 43019>>, <<43045, 43046>>, <<43052, 43052>>,
     <<43204, 43205>>, <<43232, 43249>>, <<43263, 43263>>, <<43302, 43309>>,
     <<43335, 43345>>, <<43392, 43394>>, <<43443, 43443>>, <<43446, 43449>>,
     <<43452, 43453>>, <<43471, 43471>>, <<43493, 43494>>, <<43561, 43566>>,
     <<43569, 43570>>, <<43573, 43574>>, <<43587, 43587>>, <<43596, 43596>>,
     <<43632, 43632>>, <<43644, 43644>>, <<43696, 43696>>, <<43698, 43700>>,
     <<43703, 43704>>, <<43710, 43711>>, <<43713, 43713>>, <<43741, 43741>>,
     <<43756, 43757>>, <<43763, 43764>>, <<43766, 43766>>, <<43867, 43871>>,
     <<43881, 43883>>, <<44005, 44005>>, <<44008, 44008>>, <<44013, 44013>>,
     <<64286, 64286>>, <<64434, 64450>>, <<65024, 65039>>, <<65043, 65043>>,
     <<65056, 65071>>, <<65106, 65106>>, <<65109, 65109>>, <<65279, 65279>>,
     <<65287, 65287>>, <<65294, 65294>>, <<65306, 65306>>, <<65342, 65342>>,
     <<65344, 65344>>, <<65392, 65392>>, <<65438, 65439>>, <<65507, 65507>>,
     <<65529, 65531>>, <<66045, 66045>>, <<66272, 66272>>, <<66422, 66426>>,
     <<67456, 67461>>, <<67463, 67504>>, <<67506, 67514>>, <<68097, 68099>>,
     <<68101, 68102>>, <<68108, 68111>>, <<68152, 68154>>, <<68159, 68159>>,
     <<68325, 68326>>, <<68900, 68903>>, <<69291, 69292>>, <<69446, 69456>>,
     <<69506, 69509>>, <<69633, 69633>>, <<69688, 69702>>, <<69744, 69744>>,
     <<69747, 69748>>, <<69759, 69761>>, <<69811, 69814>>, <<69817, 69818>>,
     <<69821, 69821>>, <<69826, 69826>>, <<69837, 69837>>, <<69888, 69890>>,
     <<69927, 69931>>, <<69933, 69940>>, <<70003, 70003>>, <<70016, 70017>>,
     <<70070, 70078>>, <<70089, 70092>>, <<70095, 70095>>, <<70191, 70193>>,
     <<70196, 70196>>, <<70198, 70199>>, <<70206, 70206>>, <<70367, 70367>>,
     <<70371, 70378>>, <<70400, 70401>>, <<70459, 70460>>, <<70464, 70464>>,
     <<70502, 70508>>, <<70512, 70516>>, <<70712, 70719>>, <<70722, 70724>>,
     <<70726, 70726>>, <<70750, 70750>>, <<70835, 70840>>, <<70842, 70842>>,
     <<70847, 70848>>, <<70850, 70851>>, <<71090, 71093>>, <<71100, 71101>>,
     <<71103, 71104>>, <<71132, 71133>>, <<71219, 71226>>, <<71229, 71229>>,
     <<71231, 71232>>, <<71339, 71339>>, <<71341, 71341>>, <<71344, 71349>>,
     <<71351, 71351>>, <<71453, 71455>>, <<71458, 71461>>, <<71463, 71467>>,
     <<71727, 71735>>, <<71737, 71738>>, <<71995, 71996>>, <<71998, 71998>>,
     <<72003, 72003>>, <<72148, 72151>>, <<72154, 72155>>, <<72160, 72160>>,
     <<72193, 72202>>, <<72243, 72248>>, <<72251, 72254>>, <<72263, 72263>>,
     <<72273, 72278>>, <<72281, 72283>>, <<72330, 72342>>, <<72344, 72345>>,
     <<72752, 72758>>, <<72760, 72765>>, <<72767, 72767>>, <<72850, 72871>>,
     <<72874, 72880>>, <<72882, 72883>>, <<72885, 72886>>, <<73009, 73014>>,
     <<73018, 73018>>, <<73020, 73021>>, <<73023, 73029>>, <<73031, 73031>>,
     <<73104, 73105>>, <<73109, 73109>>, <<73111, 73111>>, <<73459, 73460>>,
     <<78896, 78904>>, <<92912, 92916>>, <<92976, 92982>>, <<92992, 92995>>,
     <<94031, 94031>>, <<94095, 94111>>, <<94176, 94177>>, <<94179, 94180>>,
     <<110576, 110579>>, <<110581, 110587>>, <<110589, 110590>>, <<113821, 113822>>,
     <<113824, 113827>>, <<118528, 118573>>, <<118576, 118598>>, <<119143, 119145>>,
     <<119155, 119170>>, <<119173, 119179>>, <<119210, 119213>>, <<119362, 119364>>,
     <<121344, 121398>>, <<121403, 121452>>, <<121461, 121461>>, <<121476, 121476>>,
     <<121499, 121503>>, <<121505, 121519>>, <<122880, 122886>>, <<122888, 122904>>,
     <<122907, 122913>>, <<122915, 122916>>, <<122918, 122922>>, <<123184, 123197>>,
     <<123566, 123566>>, <<123628, 123631>>, <<125136, 125142>>, <<125252, 125259>>,
     <<127995, 127999>>, <<917505, 917505>>, <<917536, 917631>>, <<917760, 917999>> >>

\* The cased code points that are not case-ignorable, as ranges.
Cased ==
  << <<65, 90>>, <<97, 122>>, <<170, 170>>, <<181, 181>>, <<186, 186>>, <<192, 214>>,
     <<216, 246>>, <<248, 442>>, <<444, 447>>, <<452, 659>>, <<661, 687>>, <<880, 883>>,
     <<886, 887>>, <<891, 893>>, <<895, 895>>, <<902, 902>>, <<904, 906>>, <<908, 908>>,
     <<910, 929>>, <<931, 1013>>, <<1015, 1153>>, <<1162, 1327>>, <<1329, 1366>>,
     <<1376, 1416>>, <<4256, 4293>>, <<4295, 4295>>, <<4301, 4301>>, <<4304, 4346>>,
     <<4349, 4351>>, <<5024, 5109>>, <<5112, 5117>>, <<7296, 7304>>, <<7312, 7354>>,
     <<7357, 7359>>, <<7424, 7467>>, <<7531, 7543>>, <<7545, 7578>>, <<7680, 7957>>,
     <<7960, 7965>>, <<7968, 8005>>, <<8008, 8013>>, <<8016, 8023>>, <<8025, 8025>>,
     <<8027, 8027>>, <<8029, 8029>>, <<8031, 8061>>, <<8064, 8116>>, <<8118, 8124>>,
     <<8126, 8126>>, <<8130, 8132>>, <<8134, 8140>>, <<8144, 8147>>, <<8150, 8155>>,
     <<8160, 8172>>, <<8178, 8180>>, <<8182, 8188>>, <<8450, 8450>>, <<8455, 8455>>,
     <<8458, 8467>>, <<8469, 8469>>, <<8473, 8477>>, <<8484, 8484>>, <<8486, 8486>>,
     <<8488, 8488>>, <<8490, 8493>>, <<8495, 8500>>, <<8505, 8505>>, <<8508, 8511>>,
     <<8517, 8521>>, <<8526, 8526>>, <<8544, 8575>>, <<8579, 8580>>, <<9398, 9449>>,
     <<11264, 11387>>, <<11390, 11492>>, <<11499, 11502>>, <<11506, 11507>>,
     <<11520, 11557>>, <<11559, 11559>>, <<11565, 11565>>, <<42560, 42605>>,
     <<42624, 42651>>, <<42786, 42863>>, <<42865, 42887>>, <<42891, 42894>>,
     <<42896, 42954>>, <<42960, 42961>>, <<42963, 42963>>, <<42965, 42969>>,
     <<42997, 42998>>, <<43002, 43002>>, <<43824, 43866>>, <<43872, 43880>>,
     <<43888, 43967>>, <<64256, 64262>>, <<64275, 64279>>, <<65313, 65338>>,
     <<65345, 65370>>, <<66560, 66639>>, <<66736, 66771>>, <<66776, 66811>>,
     <<66928, 66938>>, <<66940, 66954>>, <<66956, 66962>>, <<66964, 66965>>,
     <<66967, 66977>>, <<66979, 66993>>, <<66995, 67001>>, <<67003, 67004>>,
     <<68736, 68786>>, <<68800, 68850>>, <<71840, 71903>>, <<93760, 93823>>,
     <<119808, 119892>>, <<119894, 119964>>, <<119966, 119967>>, <<119970, 119970>>,
     <<119973, 119974>>, <<119977, 119980>>, <<119982, 119993>>, <<119995, 119995>>,
     <<119997, 120003>>, <<120005, 120069>>, <<120071, 120074>>, <<120077, 120084>>,
     <<120086, 120092>>, <<120094, 120121>>, <<120123, 120126>>, <<120128, 120132>>,
     <<120134, 120134>>, <<120138, 120144>>, <<120146, 120485>>, <<120488, 120512>>,
     <<120514, 120538>>, <<120540, 120570>>, <<120572, 120596>>, <<120598, 120628>>,
     <<120630, 120654>>, <<120656, 120686>>, <<120688, 120712>>, <<120714, 120744>>,
     <<120746, 120770>>, <<120772, 120779>>, <<122624, 122633>>, <<122635, 122654>>,
     <<125184, 125251>>, <<127280, 127305>>, <<127312, 127337>>, <<127344, 127369>> >>

\* The decimal digits above ASCII, as ranges <<first, last>> that start at
\* a digit zero: the digit of c is (c - first) % 10.
DecimalDigits ==
  << <<1632, 1641>>, <<1776, 1785>>, <<1984, 1993>>, <<2406, 2415>>, <<2534, 2543>>,
     <<2662, 2671>>, <<2790, 2799>>, <<2918, 2927>>, <<3046, 3055>>, <<3174, 3183>>,
     <<3302, 3311>>, <<3430, 3439>>, <<3558, 3567>>, <<3664, 3673>>, <<3792, 3801>>,
     <<3872, 3881>>, <<4160, 4169>>, <<4240, 4249>>, <<6112, 6121>>, <<6160, 6169>>,
     <<6470, 6479>>, <<6608, 6617>>, <<6784, 6793>>, <<6800, 6809>>, <<6992, 7001>>,
     <<7088, 7097>>, <<7232, 7241>>, <<7248, 7257>>, <<42528, 42537>>, <<43216, 43225>>,
     <<43264, 43273>>, <<43472, 43481>>, <<43504, 43513>>, <<43600, 43609>>,
     <<44016, 44025>>, <<65296, 65305>>, <<66720, 66729>>, <<68912, 68921>>,
     <<69734, 69743>>, <<69872, 69881>>, <<69942, 69951>>, <<70096, 70105>>,
     <<70384, 70393>>, <<70736, 70745>>, <<70864, 70873>>, <<71248, 71257>>,
     <<71360, 71369>>, <<71472, 71481>>, <<71904, 71913>>, <<72016, 72025>>,
     <<72784, 72793>>, <<73040, 73049>>, <<73120, 73129>>, <<92768, 92777>>,
     <<92864, 92873>>, <<93008, 93017>>, <<120782, 120831>>, <<123200, 123209>>,
     <<123632, 123641>>, <<125264, 125273>>, <<130032, 130041>> >>

\* The white space above ASCII (Py_UNICODE_ISSPACE), as ranges.
Spaces ==
  << <<133, 133>>, <<160, 160>>, <<5760, 5760>>, <<8192, 8202>>, <<8232, 8233>>,
     <<8239, 8239>>, <<8287, 8287>>, <<12288, 12288>> >>

\* The index of the range <<first, last>> that holds c in a table of disjoint
\* ranges; 0 when no range holds c.
RangeAt(table, c) ==
  LET holds(k) == table[k][1] <= c /\ c <= table[k][2]
  IN  IF \E k \in DOMAIN table : holds(k) THEN CHOOSE k \in DOMAIN table : holds(k) ELSE 0

\* The case mapping of one code point by its tables: the text of the special
\* table when c is there; c + delta when a range <<first, last, step, delta>>
\* holds c at one of its steps; else c.
CaseOf(c, special, ranges) ==
  LET isSpecial(k) == special[k][1] = c
      holds(k) == /\ ranges[k][1] <= c
                  /\ c <= ranges[k][2]
                  /\ (c - ranges[k][1]) % ranges[k][3] = 0
  IN  IF \E k \in DOMAIN special : isSpecial(k)
        THEN special[CHOOSE k \in DOMAIN special : isSpecial(k)][2]
      ELSE IF \E k \in DOMAIN ranges : holds(k)
        THEN << c + ranges[CHOOSE k \in DOMAIN ranges : holds(k)][4] >>
      ELSE << c >>

IsAsciiUpper(c) == c >= 65 /\ c <= 90
IsAsciiLower(c) == c >= 97 /\ c <= 122

RECURSIVE Upper(_)
\* str.upper()
Upper(s) ==
  IF s = << >> THEN << >>
  ELSE IF Len(s) = 1
    THEN (IF s[1] >= 128 THEN CaseOf(s[1], UpperSpecial, UpperRanges)
          ELSE IF IsAsciiLower(s[1]) THEN << s[1] - 32 >>
          ELSE s)
  ELSE Upper(SubSeq(s, 1, Len(s) \div 2)) \o Upper(SubSeq(s, Len(s) \div 2 + 1, Len(s)))

\* str.lower() turns a capital sigma (U+03A3) into the final small sigma when a
\* cased letter precedes it and none follows, case-ignorable code points
\* skipped on both sides.
FinalSigma(s, i) ==
  LET before == {j \in 1..(i - 1) : RangeAt(CaseIgnorable, s[j]) = 0}
      after == {j \in (i + 1)..Len(s) : RangeAt(CaseIgnorable, s[j]) = 0}
      isCased(c) == RangeAt(Cased, c) # 0
  IN  /\ before # {}
      /\ isCased(s[CHOOSE j \in before : \A x \in before : x <= j])
      /\ \/ after = {}
         \/ ~isCased(s[CHOOSE j \in after : \A x \in after : j <= x])

RECURSIVE LowerBetween(_, _, _)
\* The lower case text of the code points i..j of s.
LowerBetween(s, i, j) ==
  IF i > j THEN << >>
  ELSE IF i = j
    THEN (IF s[i] = 931 THEN (IF FinalSigma(s, i) THEN << 962 >> ELSE << 963 >>)
          ELSE IF s[i] >= 128 THEN CaseOf(s[i], LowerSpecial, LowerRanges)
          ELSE IF IsAsciiUpper(s[i]) THEN << s[i] + 32 >>
          ELSE << s[i] >>)
  ELSE LowerBetween(s, i, (i + j) \div 2) \o LowerBetween(s, (i + j) \div 2 + 1, j)

\* str.lower()
Lower(s) == LowerBetween(s, 1, Len(s))

\* str.replace('_', ' ')
ReplaceUnderscore(s) == [i \in 1..Len(s) |-> IF s[i] = 95 THEN 32 ELSE s[i]]

\* str.title() on the values of Component, which are ASCII: a letter is upper
\* case exactly when it follows a non-letter (or starts the string).
Title(s) ==
  [i \in 1..Len(s) |->
     LET isLetter(c) == IsAsciiUpper(c) \/ IsAsciiLower(c)
         first == i = 1 \/ ~isLetter(s[i - 1])
     IN  IF first /\ IsAsciiLower(s[i]) THEN s[i] - 32
         ELSE IF ~first /\ IsAsciiUpper(s[i]) THEN s[i] + 32
         ELSE s[i]]

\* ----------------------------------------------------------------- numbers
Ok(v) == [ok |-> TRUE, val |-> v]
Raise(e) == [ok |-> FALSE, err |-> e]

\* An exception raised by a call leaves the caller too: the statements after
\* the call run on its value only.
\* Rest applied to a value computed once.
With(v, Rest(_)) == Rest(v)

Then(r, Rest(_)) ==
  LET result == r
  IN  IF result.ok THEN Rest(result.val) ELSE result

IsAsciiDigit(c) == c >= 48 /\ c <= 57

RECURSIVE TransformToASCII(_)
\* What int() and float() read of a text with a code point above ASCII: a
\* space for each white space, the ASCII digit for each decimal digit, and
\* a '?' that ends the text for any other code point from 127 on.
TransformToASCII(s) ==
  IF s = << >> THEN << >>
  ELSE IF Head(s) < 127 THEN << Head(s) >> \o TransformToASCII(Tail(s))
  ELSE IF RangeAt(Spaces, Head(s)) # 0 THEN << 32 >> \o TransformToASCII(Tail(s))
  ELSE IF RangeAt(DecimalDigits, Head(s)) # 0
    THEN << 48 + ((Head(s) - DecimalDigits[RangeAt(DecimalDigits, Head(s))][1]) % 10) >>
         \o TransformToASCII(Tail(s))
  ELSE << 63 >>

\* The text int() and float() parse: ASCII, without the white space (tab to
\* carriage return, and the blank) around it.
NumberText(s) ==
  With(IF \A i \in 1..Len(s) : s[i] < 128 THEN s ELSE TransformToASCII(s), LAMBDA ascii :
  With({i \in 1..Len(ascii) : ascii[i] \notin {9, 10, 11, 12, 13, 32}}, LAMBDA inner :
    IF inner = {} THEN << >>
    ELSE SubSeq(ascii, CHOOSE i \in inner : \A j \in inner : i <= j,
                CHOOSE i \in inner : \A j \in inner : j <= i)))

\* An underscore is accepted between two digits only.
UnderscoresOk(s) ==
  \A i \in 1..Len(s) :
    s[i] = 95 => (i > 1 /\ i < Len(s) /\ IsAsciiDigit(s[i - 1]) /\ IsAsciiDigit(s[i + 1]))

IsSign(s) == s # << >> /\ s[1] \in {43, 45}

RECURSIVE DigitsValue(_)
\* Value of a string of decimal digits.
DigitsValue(s) ==
  IF s = << >> THEN 0
  ELSE 10 * DigitsValue(SubSeq(s, 1, Len(s) - 1)) + (s[Len(s)] - 48)

RECURSIVE NatToStr(_)
NatToStr(n) ==
  IF n < 10 THEN << 48 + n >> ELSE NatToStr(n \div 10) \o << 48 + (n % 10) >>

\* str(n) for an int.
IntToStr(n) == IF n < 0 THEN << 45 >> \o NatToStr(0 - n) ELSE NatToStr(n)

\* int(text): an optional sign and decimal digits, single underscores between
\* digits and white space around allowed; anything else raises ValueError.
\* (The integers of the model are those of TLC, below 2^31.)
IntOf(text) ==
  With(NumberText(text), LAMBDA s :
  With(IF IsSign(s) THEN Tail(s) ELSE s, LAMBDA body :
  With(SelectSeq(body, LAMBDA c : c # 95), LAMBDA digits :
    IF /\ digits # << >>
       /\ UnderscoresOk(body)
       /\ \A i \in 1..Len(digits) : IsAsciiDigit(digits[i])
    THEN Ok(IF s[1] = 45 THEN 0 - DigitsValue(digits) ELSE DigitsValue(digits))
    ELSE Raise("ValueError"))))

\* ---- float(text): the text read
\* A mantissa: digits with at most one point and at least one digit.
IsMantissa(s) ==
  /\ \A i \in 1..Len(s) : IsAsciiDigit(s[i]) \/ s[i] = 46
  /\ Cardinality({i \in 1..Len(s) : s[i] = 46}) <= 1
  /\ \E i \in 1..Len(s) : IsAsciiDigit(s[i])

\* An exponent, after the 'e': an optional sign and at least one digit.
IsExponent(s) ==
  LET body == IF IsSign(s) THEN Tail(s) ELSE s
  IN  body # << >> /\ \A i \in 1..Len(body) : IsAsciiDigit(body[i])

\* The digits without leading zeros.
RECURSIVE Significant(_)
Significant(digits) ==
  IF digits # << >> /\ Head(digits) = 48 THEN Significant(Tail(digits)) ELSE digits

\* The value of an exponent; beyond a million every float is inf or zero.
ExponentValue(s) ==
  LET body == Significant(IF IsSign(s) THEN Tail(s) ELSE s)
      mag == IF Len(body) > 6 THEN 1000000 ELSE DigitsValue(body)
  IN  IF s[1] = 45 THEN 0 - mag ELSE mag

\* The text float() reads: kind "invalid" (ValueError), "inf", "nan", or
\* "finite" with the value  digits * 10^scale  (digits: a decimal text
\* without leading zeros, empty for zero) and its sign.
ParseFloat(text) ==
  With(NumberText(text), LAMBDA s :
  With(SelectSeq(s, LAMBDA c : c # 95), LAMBDA t :
  With(IF IsSign(t) THEN Tail(t) ELSE t, LAMBDA body :
  With({i \in 1..Len(body) : body[i] \in {69, 101}}, LAMBDA es :
  With(IF es = {} THEN Len(body) + 1 ELSE CHOOSE i \in es : \A j \in es : i <= j, LAMBDA e :
  With(SubSeq(body, 1, e - 1), LAMBDA mantissa :
  With(SubSeq(body, e + 1, Len(body)), LAMBDA exponent :
  With({i \in 1..Len(mantissa) : mantissa[i] = 46}, LAMBDA dots :
    LET neg == t # << >> /\ t[1] = 45
        word == [i \in 1..Len(body) |->
                   IF IsAsciiUpper(body[i]) THEN body[i] + 32 ELSE body[i]]
        dot == IF dots = {} THEN Len(mantissa) + 1 ELSE CHOOSE i \in dots : TRUE
        ex == IF es = {} THEN 0 ELSE ExponentValue(exponent)
    IN  IF ~UnderscoresOk(s) THEN [kind |-> "invalid"]
        ELSE IF word \in {<<105, 110, 102>>, <<105, 110, 102, 105, 110, 105, 116, 121>>}
          THEN [kind |-> "inf", neg |-> neg]
        ELSE IF word = <<110, 97, 110>> THEN [kind |-> "nan", neg |-> neg]
        ELSE IF ~IsMantissa(mantissa) \/ (es # {} /\ ~IsExponent(exponent))
          THEN [kind |-> "invalid"]
        ELSE [kind |-> "finite", neg |-> neg,
              digits |-> Significant(SubSeq(mantissa, 1, dot - 1)
                                     \o SubSeq(mantissa, dot + 1, Len(mantissa))),
              scale |-> ex - (Len(mantissa) - dot + (IF dots = {} THEN 1 ELSE 0))]))))))))

\* ---- IEEE 754 binary64 arithmetic
\* A natural number of any size is the sequence of its decimal digits, the
\* least significant first, without leading zeros (0 is the empty sequence).
Double(n) ==
  LET m == Len(n)
      len == IF m > 0 /\ n[m] >= 5 THEN m + 1 ELSE m
  IN  SubSeq([i \in 1..len |->
                (IF i <= m THEN (2 * n[i]) % 10 ELSE 0)
                + (IF i > 1 /\ n[i - 1] >= 5 THEN 1 ELSE 0)], 1, len)

\* n \div 2
Halve(n) ==
  LET m == Len(n)
      len == IF m > 0 /\ n[m] = 1 THEN m - 1 ELSE m
  IN  SubSeq([i \in 1..len |->
                (n[i] \div 2) + (IF i < m /\ n[i + 1] % 2 = 1 THEN 5 ELSE 0)], 1, len)

IsOdd(n) == n # << >> /\ n[1] % 2 = 1

RECURSIVE Increment(_)
Increment(n) ==
  IF n = << >> THEN << 1 >>
  ELSE IF n[1] < 9 THEN << n[1] + 1 >> \o Tail(n)
  ELSE << 0 >> \o Increment(Tail(n))

\* a >= b
AtLeast(a, b) ==
  IF Len(a) # Len(b) THEN Len(a) > Len(b)
  ELSE LET diff == {i \in 1..Len(a) : a[i] # b[i]}
       IN  diff = {} \/ (LET top == CHOOSE i \in diff : \A j \in diff : j <= i
                         IN  a[top] > b[top])

RECURSIVE ShiftLeft(_, _)
\* n * 2^s
ShiftLeft(n, s) ==
  IF s = 0 \/ n = << >> THEN n
  ELSE IF s = 1 THEN Double(n)
  ELSE ShiftLeft(ShiftLeft(n, s \div 2), s - (s \div 2))

RECURSIVE ShiftRight(_, _)
\* n \div 2^s
ShiftRight(n, s) ==
  IF s = 0 \/ n = << >> THEN n
  ELSE IF s = 1 THEN Halve(n)
  ELSE ShiftRight(ShiftRight(n, s \div 2), s - (s \div 2))

\* A double has a significand of 53 bits: it is  q * 2^e  with
\* 2^52 <= q < 2^53, and e <= 971 for a finite one.
TwoTo52 == ShiftLeft(<< 1 >>, 52)
TwoTo53 == ShiftLeft(<< 1 >>, 53)

\* Round to nearest, ties to even: q is rounded up when roundUp.
Rounded(q, roundUp, e) ==
  LET r == IF roundUp THEN Increment(q) ELSE q
  IN  IF r = TwoTo53 THEN [q |-> TwoTo52, e |-> e + 1] ELSE [q |-> r, e |-> e]

\* n / 10^k scaled by 2^s for s >= 0: the decimal digits dropped decide the
\* rounding.
RoundUpwards(n, k, s) ==
  With(ShiftLeft(n, s), LAMBDA scaled :
  With(SubSeq(scaled, k + 1, Len(scaled)), LAMBDA q :
    LET rest == {i \in 1..(k - 1) : scaled[i] # 0}
        above == k > 0 /\ (scaled[k] > 5 \/ (scaled[k] = 5 /\ rest # {}))
        half == k > 0 /\ scaled[k] = 5 /\ rest = {}
    IN  Rounded(q, above \/ (half /\ IsOdd(q)), 0 - s)))

\* n / 10^k divided by 2^h for h > 0: the last bit dropped decides the
\* rounding, and on a tie whether anything was dropped below it.
RoundDownwards(n, k, h) ==
  With(SubSeq(n, k + 1, Len(n)), LAMBDA m :
  With(ShiftRight(m, h - 1), LAMBDA upper :
  With(Halve(upper), LAMBDA q :
    LET sticky == ShiftLeft(upper, h - 1) # m \/ \E i \in 1..k : n[i] # 0
    IN  Rounded(q, IsOdd(upper) /\ (sticky \/ IsOdd(q)), h))))

\* The double nearest to  n / 10^k  for n > 0 with Len(n) - k decimal digits
\* before the point: its exponent is the one that leaves 53 bits, and is
\* within 2 of 3.32 times the number of those digits, less 53.
Nearest(n, k) ==
  LET digits == Len(n) - k
      low == ((digits - 1) * 3321 - 1000) \div 1000 - 53
      high == (digits * 3322 + 1000) \div 1000 - 51
      quotient(x) == IF x <= 0 THEN LET scaled == ShiftLeft(n, 0 - x)
                                    IN  SubSeq(scaled, k + 1, Len(scaled))
                     ELSE ShiftRight(SubSeq(n, k + 1, Len(n)), x)
  IN  With(CHOOSE x \in low..high :
             With(quotient(x), LAMBDA q : AtLeast(q, TwoTo52) /\ ~AtLeast(q, TwoTo53)),
           LAMBDA e :
             IF e <= 0 THEN RoundUpwards(n, k, 0 - e) ELSE RoundDownwards(n, k, e))

\* str(int(float(text) * 100)).  int() raises ValueError for nan and
\* OverflowError for inf.  A text whose value is 10^309 or more reads as
\* inf; one below 0.001 gives a product below 1 and so 0.
PercentOfFloat(f) ==
  IF f.kind = "invalid" \/ f.kind = "nan" THEN Raise("ValueError")
  ELSE IF f.kind = "inf" THEN Raise("OverflowError")
  ELSE IF f.digits = << >> \/ Len(f.digits) + f.scale <= -3 THEN Ok(<< 48 >>)
  ELSE IF Len(f.digits) + f.scale >= 310 THEN Raise("OverflowError")
  ELSE LET k == IF f.scale < 0 THEN 0 - f.scale ELSE 0
           n == [i \in 1..(IF f.scale > 0 THEN f.scale ELSE 0) |-> 0]
                \o [i \in 1..Len(f.digits) |-> f.digits[Len(f.digits) + 1 - i] - 48]
       IN  With(Nearest(n, k), LAMBDA d :
           With(Nearest(<< 0, 0 >> \o d.q, 0), LAMBDA times100 :
           With([q |-> times100.q, e |-> times100.e + d.e], LAMBDA p :
           With(IF p.e >= 0 THEN ShiftLeft(p.q, p.e) ELSE ShiftRight(p.q, 0 - p.e), LAMBDA int :
             IF d.e > 971 \/ p.e > 971 THEN Raise("OverflowError")
             ELSE Ok((IF f.neg /\ int # << >> THEN << 45 >> ELSE << >>)
                     \o (IF int = << >> THEN << 48 >>
                         ELSE [i \in 1..Len(int) |-> 48 + int[Len(int) + 1 - i]]))))))

\* The conversions of the value texts of the raw quirk records of the
\* specifications ('0.25', '0.29', '0.5', '1' and 'x'), computed once.
KnownPercents ==
  { << t, PercentOfFloat(ParseFloat(t)) >> :
      t \in { <<48, 46, 50, 53>>, <<48, 46, 50, 57>>, <<48, 46, 53>>, <<49>>, <<120>> } }

\* str(int(float(value) * 100)), or the exception raised.
Percent(value) ==
  IF \E known \in KnownPercents : known[1] = value
  THEN (CHOOSE known \in KnownPercents : known[1] = value)[2]
  ELSE PercentOfFloat(ParseFloat(value))

\* ------------------------------------------------------------------- dicts
\* A dict is the sequence of its (key, value) items in insertion order.
HasKey(d, k) == \E i \in 1..Len(d) : d[i][1] = k
DictGet(d, k) == d[CHOOSE i \in 1..Len(d) : d[i][1] = k][2]
DictPut(d, k, v) ==
  IF HasKey(d, k)
  THEN [i \in 1..Len(d) |-> IF d[i][1] = k THEN << k, v >> ELSE d[i]]
  ELSE Append(d, << k, v >>)

\* d.values()
DictValues(d) == [i \in 1..Len(d) |-> d[i][2]]

\* d[k]: KeyError when d has no key k.
Item(d, k) == IF HasKey(d, k) THEN Ok(DictGet(d, k)) ELSE Raise("KeyError")

\* A dict of the raw data whose keys are fixed words is a record: d[k] and
\* d.get(k, default).
Field(d, k) == IF k \in DOMAIN d THEN Ok(d[k]) ELSE Raise("KeyError")
GetOr(d, k, default) == IF k \in DOMAIN d THEN d[k] ELSE default

\* ------------------------------------------------------------------- Quirk
\* '\n\t<b>HARDPOINTS</b>'
HardpointsName ==
  <<10, 9, 60, 98, 62, 72, 65, 82, 68, 80, 79, 73, 78, 84, 83, 60, 47, 98, 62>>
\* 'HARDPOINTS'
HARDPOINTS == <<72, 65, 82, 68, 80, 79, 73, 78, 84, 83>>

\* ('ADDITIONAL', 'BONUS', 'HARDPOINT', 'ANGLE', 'JUMP', 'NARC', 'SENSOR')
non_percent_quirks ==
  << <<65, 68, 68, 73, 84, 73, 79, 78, 65, 76>>,
     <<66, 79, 78, 85, 83>>,
     <<72, 65, 82, 68, 80, 79, 73, 78, 84>>,
     <<65, 78, 71, 76, 69>>,
     <<74, 85, 77, 80>>,
     <<78, 65, 82, 67>>,
     <<83, 69, 78, 83, 79, 82>> >>

\* Quirk.__init__: the value of a name holding no non-percent keyword becomes
\* str(int(float(value) * 100)) + '%'; float() and int() may raise.
Quirk(quirk_json) ==
  LET name == quirk_json.translated_name
      value == quirk_json.value
  IN  IF \E k \in 1..Len(non_percent_quirks) : Contains(name, non_percent_quirks[k])
      THEN Ok([name |-> name, value |-> value])
      ELSE Then(Percent(value), LAMBDA text : Ok([name |-> name, value |-> text \o << 37 >>]))

\* Quirk.__lt__
QuirkLess(a, b) == StrLess(a.name, b.name)

\* Quirk.__eq__ is equality of the (name, value) record; `q in list`:
InList(q, list) == \E i \in 1..Len(list) : list[i] = q

RECURSIVE SortQuirks(_)
\* list.sort() / sorted(): a stable sort under Quirk.__lt__.
SortQuirks(list) ==
  IF list = << >> THEN << >>
  ELSE LET init == SortQuirks(SubSeq(list, 1, Len(list) - 1))
           x == list[Len(list)]
           later == {i \in 1..Len(init) : QuirkLess(x, init[i])}
           p == IF later = {} THEN Len(init) + 1
                ELSE CHOOSE i \in later : \A j \in later : i <= j
       IN  SubSeq(init, 1, p - 1) \o << x >> \o SubSeq(init, p, Len(init))

\* --------------------------------------------------------------- Component
\* class Component(Enum), in definition order: member name and value.
Component ==
  << [name |-> <<104, 100>>, value |-> <<104, 101, 97, 100>>],
     [name |-> <<114, 97>>, value |-> <<114, 105, 103, 104, 116, 95, 97, 114, 109>>],
     [name |-> <<114, 116>>,
      value |-> <<114, 105, 103, 104, 116, 95, 116, 111, 114, 115, 111>>],
     [name |-> <<99, 116>>,
      value |-> <<99, 101, 110, 116, 114, 101, 95, 116, 111, 114, 115, 111>>],
     [name |-> <<108, 116>>,
      value |-> <<108, 101, 102, 116, 95, 116, 111, 114, 115, 111>>],
     [name |-> <<108, 97>>, value |-> <<108, 101, 102, 116, 95, 97, 114, 109>>],
     [name |-> <<114, 108>>, value |-> <<114, 105, 103, 104, 116, 95, 108, 101, 103>>],
     [name |-> <<108, 108>>, value |-> <<108, 101, 102, 116, 95, 108, 101, 103>>] >>

\* Component(value): the member with that value, ValueError when there is none.
ComponentByValue(v) ==
  IF \E i \in 1..Len(Component) : Component[i].value = v
  THEN Ok(Component[CHOOSE i \in 1..Len(Component) : Component[i].value = v])
  ELSE Raise("ValueError")

\* Component.__str__
ComponentStr(c) ==
  IF c.value = <<99, 101, 110, 116, 114, 101, 95, 116, 111, 114, 115, 111>>
  THEN <<67, 101, 110, 116, 101, 114, 32, 84, 111, 114, 115, 111>>
  ELSE Title(ReplaceUnderscore(c.value))

\* ----------------------------------------------------------------- Omnipod
\* The keys of the hardpoints dict, in insertion (= iteration) order:
\* 'beam', 'missle', 'ballistic', 'ams', 'ecm'.
HardpointKinds ==
  << <<98, 101, 97, 109>>,
     <<109, 105, 115, 115, 108, 101>>,
     <<98, 97, 108, 108, 105, 115, 116, 105, 99>>,
     <<97, 109, 115>>,
     <<101, 99, 109>> >>

KindSet == {HardpointKinds[i] : i \in 1..Len(HardpointKinds)}

\* hp_objects: shortname and color of each kind.
hp_objects ==
  [k \in KindSet |->
     IF k = HardpointKinds[1] THEN [shortname |-> <<69>>, color |-> <<111, 114, 97, 110, 103, 101>>]
     ELSE IF k = HardpointKinds[2] THEN [shortname |-> <<77>>, color |-> <<116, 101, 97, 108>>]
     ELSE IF k = HardpointKinds[3]
       THEN [shortname |-> <<66>>, color |-> <<112, 117, 114, 112, 108, 101>>]
     ELSE IF k = HardpointKinds[4] THEN [shortname |-> <<65, 77, 83>>, color |-> <<114, 101, 100>>]
     ELSE [shortname |-> <<69, 67, 77>>, color |-> <<103, 114, 101, 101, 110>>]]

RECURSIVE HardpointEntries(_)
\* omnipod.get('hardpoints', []) of each sub-dict, one after the other.
HardpointEntries(subs) ==
  IF subs = << >> THEN << >>
  ELSE GetOr(Head(subs), "hardpoints", << >>) \o HardpointEntries(Tail(subs))

\* The raw hardpoint records in the order of the two loops of lines 77-78:
\* the sub-dicts in the order of pod_dict.values().
PodHardpointEntries(pod_dict) == HardpointEntries(DictValues(pod_dict))

RECURSIVE AccumulateHardpoints(_, _)
\* The loop of Omnipod._get_hardpoints over the raw entries:
\* hardpoints[entry['type'].lower()] += int(entry['count'])
\* The augmented assignment reads hardpoints[key] (KeyError) before it
\* evaluates int() (ValueError).
AccumulateHardpoints(counts, entries) ==
  IF entries = << >> THEN Ok(counts)
  ELSE LET key == Lower(Head(entries).type)
       IN  IF key \notin KindSet THEN Raise("KeyError")
           ELSE Then(IntOf(Head(entries).count),
                     LAMBDA n : AccumulateHardpoints([counts EXCEPT ![key] = @ + n],
                                                     Tail(entries)))

\* Omnipod._get_hardpoints
GetHardpoints(pod_dict) ==
  AccumulateHardpoints([k \in KindSet |-> 0], PodHardpointEntries(pod_dict))

\* '<font color="%s">%s%s</font>' % (hp.color, hp.count, hp.shortname)
FontTag(color, count, shortname) ==
  <<60, 102, 111, 110, 116, 32, 99, 111, 108, 111, 114, 61, 34>> \o color
    \o <<34, 62>> \o IntToStr(count) \o shortname \o <<60, 47, 102, 111, 110, 116, 62>>

KeepsHardpointZero(count) == count >= 0

\* The kinds kept by the loop over self.hardpoints.items(): count > 0.
KeepsHardpoint(count) == count > 0

AppendQuirkSorted(quirks, quirk) == SortQuirks(Append(quirks, quirk))

\* self.quirks.append(Quirk(quirk))
AppendQuirk(quirks, quirk) == Append(quirks, quirk)

\* Omnipod._add_hardpoints_to_quirks: the quirk list afterwards.
AddHardpointsToQuirks(quirks, hardpoints) ==
  IF \A k \in KindSet : hardpoints[k] = 0 THEN quirks
  ELSE LET kept == SelectSeq(HardpointKinds, LAMBDA k : KeepsHardpoint(hardpoints[k]))
           tags == [i \in 1..Len(kept) |->
                      FontTag(hp_objects[kept[i]].color, hardpoints[kept[i]],
                              hp_objects[kept[i]].shortname)]
           hardpoint_string == Join(tags, <<44, 32>>)
           quirk == Quirk([translated_name |-> HardpointsName, value |-> hardpoint_string])
       IN  AppendQuirk(quirks, quirk.val)

RECURSIVE MakeQuirks(_)
\* [Quirk(quirk) for quirk in raw]: the first failing Quirk() raises.
MakeQuirks(raw) ==
  IF raw = << >> THEN Ok(<< >>)
  ELSE Then(Quirk(Head(raw)),
            LAMBDA q : Then(MakeQuirks(Tail(raw)), LAMBDA rest : Ok(<< q >> \o rest)))

\* pod_dict[key][field]
PodItem(pod_dict, key, field) ==
  Then(Item(pod_dict, key), LAMBDA sub : Field(sub, field))

\* Omnipod._get_quirks
GetQuirks(pod_dict) ==
  Then(PodItem(pod_dict, "configuration", "quirks"), LAMBDA raw :
    Then(MakeQuirks(raw), LAMBDA quirks : Ok(SortQuirks(quirks))))

\* Component(pod_dict['configuration']['name'])
PodComponent(pod_dict) ==
  Then(PodItem(pod_dict, "configuration", "name"), LAMBDA value : ComponentByValue(value))

\* pod_dict['details']['set']
PodVariant(pod_dict) == PodItem(pod_dict, "details", "set")

\* Omnipod.__init__: the pod, or the exception raised.
Omnipod(pod_dict) ==
  Then(PodComponent(pod_dict), LAMBDA comp :
    Then(PodVariant(pod_dict), LAMBDA variant :
      Then(GetQuirks(pod_dict), LAMBDA quirks :
        Then(GetHardpoints(pod_dict), LAMBDA hardpoints :
          Ok([component |-> comp,
              variant |-> variant,
              quirks |-> AddHardpointsToQuirks(quirks, hardpoints),
              hardpoints |-> hardpoints])))))

\* =================================================================== state
VARIABLES
  pc,             \* position of the running constructor / function
  raised,         \* class name of the exception that ended it, or "none"
  pod_dict,       \* Omnipod.__init__: the raw pod being built
  omnipod,        \* Omnipod.__init__: the fields of self set so far
  mech_tuple,     \* Omnimech.__init__: (name, raw pods in dict order)
  omnipods,       \* Omnimech.omnipods: the pod objects
  variants,       \* Omnimech.variants
  matrix,         \* Omnimech._build_matrix: rows of references into omnipods
  shared_row,     \* Omnimech._build_matrix: the SHARED row built so far
  chassis,        \* Battlemech.__init__: (name, chassis_json)
  quirk_dict,     \* Battlemech.quirk_dict: (variant, quirk list) in dict order
  shared_quirks,  \* Battlemech._build_matrix: the shared list built so far
  pool,           \* Battlemech._build_matrix: the flattened list being iterated
  idx,            \* index of the next column / pool element of the running loop
  calls,          \* number of _build_matrix calls started on the object
  name,           \* Mech.name
  string_matrix,  \* Mech.matrix
  all_omnipods,   \* create_omnimech_tables: the items of get_omnipod_dict()
  mech_json_list, \* get_mech_list: the mech records of the 'mechs' endpoint
  chassises,      \* create_battlemech_tables: family -> mech records
  mechs,          \* the list of units built so far, then sorted
  files,          \* path -> text of the files written
  count           \* the value returned, -1 before

podVars == << pod_dict, omnipod >>
omniVars == << mech_tuple, omnipods, variants, matrix, shared_row >>
battleVars == << chassis, quirk_dict, shared_quirks, pool >>
mechVars == << idx, calls, name, string_matrix >>
batchVars == << all_omnipods, mech_json_list, chassises, mechs, files, count >>
vars == << pc, raised, podVars, omniVars, battleVars, mechVars, batchVars >>

\* ------------------------------------------------------------- raw inputs
SeqsUpTo(S, n) == UNION {[1..k -> S] : k \in 0..n}

\* Raw quirk records: HEAT 0.25, HEAT 0.29 (whose double times 100 is below
\* 29), JUMP 1 and the unparsable HEAT x.
GoodRawQuirks ==
  { [translated_name |-> <<72, 69, 65, 84>>, value |-> <<48, 46, 50, 53>>],
    [translated_name |-> <<72, 69, 65, 84>>, value |-> <<48, 46, 50, 57>>],
    [translated_name |-> <<74, 85, 77, 80>>, value |-> <<49>>] }

BadRawQuirk == [translated_name |-> <<72, 69, 65, 84>>, value |-> <<120>>]

\* The raw quirk records of the units: one name with two values.
UnitRawQuirks ==
  { [translated_name |-> <<72, 69, 65, 84>>, value |-> <<48, 46, 50, 53>>],
    [translated_name |-> <<72, 69, 65, 84>>, value |-> <<48, 46, 50, 57>>] }

\* Raw hardpoint records: the five types of the data, upper case, with count
\* '1'; 'BEAM' also with '0', '2', '-1' and the count 'x' that int() does not
\* read, 'MISSLE' also with '0'; and one record of a type the code has no key
\* for ('MISSILE').
RawHardpoints ==
  { [type |-> Upper(HardpointKinds[i]), count |-> <<49>>] : i \in 1..Len(HardpointKinds) }
  \cup { [type |-> Upper(HardpointKinds[1]), count |-> c] :
           c \in {<<48>>, <<50>>, <<45, 49>>, <<120>>} }
  \cup { [type |-> Upper(HardpointKinds[2]), count |-> <<48>>],
          [type |-> <<77, 73, 83, 83, 73, 76, 69>>, count |-> <<49>>] }

\* A raw pod: its sub-dicts 'configuration' and 'details', 'details' first in
\* the dict or second.  The hardpoint records h are split over the two, the
\* first k in 'details', which has no 'hardpoints' key when it holds none.
RawPodDict(n, v, q, h, k, detailsFirst) ==
  LET configuration == << "configuration",
                           [name |-> n, quirks |-> q,
                            hardpoints |-> SubSeq(h, k + 1, Len(h))] >>
      details == << "details",
                    IF k = 0 THEN [set |-> v]
                    ELSE [set |-> v, hardpoints |-> SubSeq(h, 1, k)] >>
  IN  IF detailsFirst THEN << details, configuration >> ELSE << configuration, details >>

NoOmnimech ==
  /\ mech_tuple = << >>
  /\ omnipods = << >>
  /\ variants = {}
  /\ matrix = << >>
  /\ shared_row = << >>

NoBattlemech ==
  /\ chassis = << >>
  /\ quirk_dict = << >>
  /\ shared_quirks = << >>
  /\ pool = << >>

NoMech ==
  /\ idx = 0
  /\ calls = 0
  /\ name = << >>
  /\ string_matrix = << >>

NoBatch ==
  /\ all_omnipods = << >>
  /\ mech_json_list = << >>
  /\ chassises = << >>
  /\ mechs = << >>
  /\ files = << >>
  /\ count = -1

NoPod == [component |-> << >>, variant |-> << >>, quirks |-> << >>, hardpoints |-> << >>]

\* ------------------------------------------- Omnipod.__init__, step by step
InitPod ==
  /\ \E n \in {<<104, 101, 97, 100>>, <<116, 97, 105, 108>>},
        q \in SeqsUpTo(GoodRawQuirks \cup {BadRawQuirk}, MaxQuirks),
        h \in SeqsUpTo(RawHardpoints, MaxHardpointEntries) :
       \E k \in 0..Len(h), detailsFirst \in BOOLEAN :
         pod_dict = RawPodDict(n, <<65>>, q, h, k, detailsFirst)
  /\ omnipod = NoPod
  /\ pc = "Omnipod.component"
  /\ raised = "none"
  /\ NoOmnimech
  /\ NoBattlemech
  /\ NoMech
  /\ NoBatch

\* self.component = Component(...); self.variant = pod_dict['details']['set']
PodSetComponent ==
  /\ pc = "Omnipod.component"
  /\ \E comp \in {PodComponent(pod_dict)}, variant \in {PodVariant(pod_dict)} :
         IF comp.ok /\ variant.ok
         THEN /\ omnipod' = [omnipod EXCEPT !.component = comp.val,
                                            !.variant = variant.val]
              /\ pc' = "Omnipod.quirks"
              /\ UNCHANGED raised
         ELSE /\ raised' = IF comp.ok THEN variant.err ELSE comp.err
              /\ pc' = "Omnipod.raised"
              /\ omnipod' = IF comp.ok THEN [omnipod EXCEPT !.component = comp.val]
                            ELSE omnipod
  /\ UNCHANGED << pod_dict, omniVars, battleVars, mechVars, batchVars >>

\* self.quirks = self._get_quirks(pod_dict)
PodGetQuirks ==
  /\ pc = "Omnipod.quirks"
  /\ \E quirks \in {GetQuirks(pod_dict)} :
         IF quirks.ok
         THEN /\ omnipod' = [omnipod EXCEPT !.quirks = quirks.val]
              /\ pc' = "Omnipod.hardpoints"
              /\ UNCHANGED raised
         ELSE /\ raised' = quirks.err
              /\ pc' = "Omnipod.raised"
              /\ UNCHANGED omnipod
  /\ UNCHANGED << pod_dict, omniVars, battleVars, mechVars, batchVars >>

\* self.hardpoints = self._get_hardpoints(pod_dict)
PodGetHardpoints ==
  /\ pc = "Omnipod.hardpoints"
  /\ \E hardpoints \in {GetHardpoints(pod_dict)} :
         IF hardpoints.ok
         THEN /\ omnipod' = [omnipod EXCEPT !.hardpoints = hardpoints.val]
              /\ pc' = "Omnipod.add_hardpoints"
              /\ UNCHANGED raised
         ELSE /\ raised' = hardpoints.err
              /\ pc' = "Omnipod.raised"
              /\ UNCHANGED omnipod
  /\ UNCHANGED << pod_dict, omniVars, battleVars, mechVars, batchVars >>

\* self._add_hardpoints_to_quirks()
PodAddHardpoints ==
  /\ pc = "Omnipod.add_hardpoints"
  /\ omnipod' = [omnipod EXCEPT
                   !.quirks = AddHardpointsToQuirks(omnipod.quirks, omnipod.hardpoints)]
  /\ pc' = "Omnipod.done"
  /\ UNCHANGED << raised, pod_dict, omniVars, battleVars, mechVars, batchVars >>

NextPod == PodSetComponent \/ PodGetQuirks \/ PodGetHardpoints \/ PodAddHardpoints

SpecPod == InitPod /\ [][NextPod]_vars

\* ======================================================= claims on Omnipod
IsSortedByName(list) ==
  \A i, j \in 1..Len(list) : i < j => ~StrLess(list[j].name, list[i].name)

AllZero(hardpoints) == \A k \in KindSet : hardpoints[k] = 0

\* C7 as stated: once a pod is constructed its whole modifier list, the
\* HARDPOINTS entry included, is sorted by modifier name.
C7_Original == pc = "Omnipod.done" => IsSortedByName(omnipod.quirks)

\* pod_dict['configuration']['quirks'] of the raw pod.
RawQuirks == DictGet(pod_dict, "configuration").quirks

\* C7 amended: once a pod is constructed, the modifiers built from the raw
\* quirk records are sorted by name, and the HARDPOINTS entry, when there is
\* one, is the last element of the list whatever its name: it is appended
\* after the sort and the list is not sorted again.
C7_SortedThenHardpoints ==
  pc = "Omnipod.done" =>
    LET n == Len(omnipod.quirks)
    IN  IF AllZero(omnipod.hardpoints)
        THEN /\ IsSortedByName(omnipod.quirks)
             /\ n = Len(RawQuirks)
        ELSE /\ n = Len(RawQuirks) + 1
             /\ omnipod.quirks[n].name = HardpointsName
             /\ IsSortedByName(SubSeq(omnipod.quirks, 1, n - 1))

\* A constructed pod whose HARDPOINTS entry sits after a modifier of a
\* greater name, and whose raw quirks were not in name order.
C7_Witness ==
  /\ pc = "Omnipod.done"
  /\ Len(omnipod.quirks) = 3
  /\ omnipod.quirks[3].name = HardpointsName
  /\ StrLess(omnipod.quirks[3].name, omnipod.quirks[1].name)
  /\ StrLess(RawQuirks[2].translated_name, RawQuirks[1].translated_name)

\* The raw hardpoint records of sub-dict i of the raw pod.
RawHardpointsOf(i) ==
  IF "hardpoints" \in DOMAIN pod_dict[i][2] THEN pod_dict[i][2].hardpoints ELSE << >>

\* The raw hardpoint records of kind k over all sub-dicts of the raw pod,
\* each as (sub-dict, position).
EntriesOfKind(k) ==
  {e \in UNION {{<< i, j >> : j \in 1..Len(RawHardpointsOf(i))} : i \in 1..Len(pod_dict)} :
     Lower(RawHardpointsOf(e[1])[e[2]].type) = k}

RECURSIVE SumCounts(_)
\* The sum of the counts of a set of raw hardpoint records.
SumCounts(entries) ==
  IF entries = {} THEN 0
  ELSE LET e == CHOOSE x \in entries : TRUE
       IN  IntOf(RawHardpointsOf(e[1])[e[2]].count).val + SumCounts(entries \ {e})

RECURSIVE SplitOnComma(_)
\* The parts of a text separated by ', '.
SplitOnComma(s) ==
  LET seps == {i \in 1..(Len(s) - 1) : s[i] = 44 /\ s[i + 1] = 32}
  IN  IF seps = {} THEN << s >>
      ELSE LET p == CHOOSE i \in seps : \A j \in seps : i <= j
           IN  << SubSeq(s, 1, p - 1) >> \o SplitOnComma(SubSeq(s, p + 2, Len(s)))

\* The text inside a '<font color="..">text</font>' element.
FontText(part) ==
  LET opens == {i \in 1..(Len(part) - 1) : part[i] = 34 /\ part[i + 1] = 62}
      p == CHOOSE i \in opens : \A j \in opens : i <= j
  IN  SubSeq(part, p + 2, Len(part) - 7)

\* The kinds in the order of the claim, each with its shortcode:
\* beam E, missile M, ballistic B, AMS AMS, ECM ECM.
KindShortcodes ==
  << << <<98, 101, 97, 109>>, <<69>> >>,
     << <<109, 105, 115, 115, 108, 101>>, <<77>> >>,
     << <<98, 97, 108, 108, 105, 115, 116, 105, 99>>, <<66>> >>,
     << <<97, 109, 115>>, <<65, 77, 83>> >>,
     << <<101, 99, 109>>, <<69, 67, 77>> >> >>

\* C8: the count of each kind is the sum of the raw records of that kind
\* over all sub-dicts; with every count zero no HARDPOINTS modifier is
\* appended, otherwise exactly one, whose value lists exactly the kinds of
\* count > 0, each as count then shortcode, in the order beam, missile,
\* ballistic, AMS, ECM.
C8_HardpointFolding ==
  pc = "Omnipod.done" =>
    LET hps == SelectSeq(omnipod.quirks, LAMBDA q : q.name = HardpointsName)
        present == SelectSeq(KindShortcodes, LAMBDA kc : omnipod.hardpoints[kc[1]] > 0)
    IN  /\ \A k \in KindSet : omnipod.hardpoints[k] = SumCounts(EntriesOfKind(k))
        /\ IF AllZero(omnipod.hardpoints) THEN hps = << >>
           ELSE /\ Len(hps) = 1
                /\ LET parts == IF hps[1].value = << >> THEN << >>
                                ELSE SplitOnComma(hps[1].value)
                   IN  /\ Len(parts) = Len(present)
                       /\ \A i \in 1..Len(parts) :
                            FontText(parts[i]) =
                              IntToStr(omnipod.hardpoints[present[i][1]]) \o present[i][2]

\* A constructed pod whose beam count 3 is the sum of a record in
\* 'configuration', the first sub-dict, and one in 'details'.
C8_Witness ==
  /\ pc = "Omnipod.done"
  /\ omnipod.hardpoints[<<98, 101, 97, 109>>] = 3
  /\ pod_dict[1][1] = "configuration"
  /\ Len(RawHardpointsOf(1)) = 1
  /\ Len(RawHardpointsOf(2)) = 1
  /\ \E i \in 1..Len(omnipod.quirks) : omnipod.quirks[i].name = HardpointsName

\* The scenario of the specification: beam 2, missile 0, ballistic 1 gives
\* one HARDPOINTS value with the texts 2E and 1B, in that order.
C8_Scenario ==
  /\ pc = "Omnipod.done"
  /\ omnipod.hardpoints[<<98, 101, 97, 109>>] = 2
  /\ omnipod.hardpoints[<<98, 97, 108, 108, 105, 115, 116, 105, 99>>] = 1
  /\ omnipod.quirks =
       << [name |-> HardpointsName,
           value |-> <<60, 102, 111, 110, 116, 32, 99, 111, 108, 111, 114, 61, 34,
                       111, 114, 97, 110, 103, 101, 34, 62, 50, 69,
                       60, 47, 102, 111, 110, 116, 62, 44, 32,
                       60, 102, 111, 110, 116, 32, 99, 111, 108, 111, 114, 61, 34,
                       112, 117, 114, 112, 108, 101, 34, 62, 49, 66,
                       60, 47, 102, 111, 110, 116, 62>>] >>

\* A negative count: beam -1 and nothing else gives one HARDPOINTS modifier
\* whose value lists no kind.
C8_NothingListed ==
  /\ pc = "Omnipod.done"
  /\ omnipod.hardpoints[<<98, 101, 97, 109>>] = -1
  /\ omnipod.quirks = << [name |-> HardpointsName, value |-> << >>] >>

\* ==================================================================== Mech
\* Mech._quirks_string
QuirksString(quirks) ==
  IF quirks = << >> THEN <<45, 45>>
  ELSE Join([i \in 1..Len(quirks) |-> quirks[i].name \o <<58, 32>> \o quirks[i].value],
            <<10>>)

RECURSIVE SortedStrs(_)
\* sorted(S) for a set of distinct strings.
SortedStrs(S) ==
  IF S = {} THEN << >>
  ELSE LET m == CHOOSE x \in S : \A y \in S : ~StrLess(y, x)
       IN  << m >> \o SortedStrs(S \ {m})

\* The variant names of the raw data: 'B', 'A', 'C'.
VariantNames == << <<66>>, <<65>>, <<67>> >>

\* A placement puts raw quirk records on the slots 1..n of a unit, slot by
\* slot; the records of slot i keep their order.
IsPlacement(pl) == \A i, j \in 1..Len(pl) : i < j => pl[i][1] <= pl[j][1]
PlacedOn(pl, i) ==
  LET mine == SelectSeq(pl, LAMBDA x : x[1] = i)
  IN  [j \in 1..Len(mine) |-> mine[j][2]]

\* ============================================================== Battlemech
RECURSIVE QuirkJsonDict(_)
\* {variant['translated_name']: variant['details']['quirks'] for variant in
\*  chassis_json}
QuirkJsonDict(chassis_json) ==
  IF chassis_json = << >> THEN << >>
  ELSE LET last == chassis_json[Len(chassis_json)]
       IN  DictPut(QuirkJsonDict(SubSeq(chassis_json, 1, Len(chassis_json) - 1)),
                   last.translated_name, last.details.quirks)

RECURSIVE SortedQuirkDict(_)
\* for variant, quirk_list in self.quirk_dict.items():
\*     self.quirk_dict[variant] = sorted([Quirk(quirk) for quirk in quirk_list])
\* The first failing Quirk() raises; the variants before it hold their sorted
\* lists by then, the others their raw records.
SortedQuirkDict(d) ==
  IF d = << >> THEN [ok |-> TRUE, err |-> "none", dict |-> << >>]
  ELSE LET quirks == MakeQuirks(d[1][2])
       IN  IF ~quirks.ok THEN [ok |-> FALSE, err |-> quirks.err, dict |-> d]
           ELSE LET rest == SortedQuirkDict(Tail(d))
                IN  [ok |-> rest.ok, err |-> rest.err,
                     dict |-> << << d[1][1], SortQuirks(quirks.val) >> >> \o rest.dict]

RECURSIVE Flatten(_)
\* [item for sublist in self.quirk_dict.values() for item in sublist]
Flatten(d) == IF d = << >> THEN << >> ELSE d[1][2] \o Flatten(Tail(d))

IsSharedAny(quirk, d) == \E i \in 1..Len(d) : InList(quirk, d[i][2])

\* all(quirk in self.quirk_dict[variant] for variant in self.quirk_dict.keys())
IsShared(quirk, d) == \A i \in 1..Len(d) : InList(quirk, d[i][2])

RemoveLast(list, q) ==
  LET at == {i \in 1..Len(list) : list[i] = q}
      p == CHOOSE i \in at : \A j \in at : j <= i
  IN  SubSeq(list, 1, p - 1) \o SubSeq(list, p + 1, Len(list))

\* list.remove(q) on a list holding q: the first equal element goes.
RemoveFirst(list, q) ==
  LET at == {i \in 1..Len(list) : list[i] = q}
      p == CHOOSE i \in at : \A j \in at : i <= j
  IN  SubSeq(list, 1, p - 1) \o SubSeq(list, p + 1, Len(list))

RECURSIVE RemoveFromAll(_, _)
\* for variant in self.quirk_dict.keys(): self.quirk_dict[variant].remove(quirk)
\* list.remove raises ValueError on a list without the quirk; the lists
\* before it have been changed by then.
RemoveFromAll(d, quirk) ==
  IF d = << >> THEN [ok |-> TRUE, dict |-> << >>]
  ELSE IF ~InList(quirk, d[1][2]) THEN [ok |-> FALSE, dict |-> d]
  ELSE LET rest == RemoveFromAll(Tail(d), quirk)
       IN  [ok |-> rest.ok,
            dict |-> << << d[1][1], RemoveFirst(d[1][2], quirk) >> >> \o rest.dict]

\* The body of the loop of lines 167-171 for one quirk of the flattened list:
\* the dict and the shared list afterwards, ok = FALSE when a removal raised.
BattleLoopBody(d, shared, quirk) ==
  IF IsShared(quirk, d)
  THEN LET removed == RemoveFromAll(d, quirk)
       IN  [ok |-> removed.ok, dict |-> removed.dict, shared |-> Append(shared, quirk)]
  ELSE [ok |-> TRUE, dict |-> d, shared |-> shared]

\* The string matrix of Battlemech._build_matrix (lines 174-183).
BattleStringMatrix(mech_name, d, shared) ==
  LET keys == SortedStrs({d[i][1] : i \in 1..Len(d)})
  IN  << << mech_name, <<81, 117, 105, 114, 107, 115>> >> >>
      \o [r \in 1..Len(keys) |-> << keys[r], QuirksString(DictGet(d, keys[r])) >>]
      \o << << <<60, 98, 62, 83, 72, 65, 82, 69, 68, 60, 47, 98, 62>>,
               QuirksString(shared) >> >>

\* Raw chassis data: each variant a name and its raw quirk records.
ChassisJson(names, pl) ==
  [i \in 1..Len(names) |->
     [translated_name |-> names[i], details |-> [quirks |-> PlacedOn(pl, i)]]]

\* A chassis: up to NumVariants variants and MaxChassisQuirks raw records.
\* The chassis with an unparsable record, or with two variants of one name,
\* have at most two records.
InitBattle ==
  /\ \E nv \in 1..NumVariants, t \in 0..MaxChassisQuirks :
       \E names \in [1..nv -> {VariantNames[i] : i \in 1..NumVariants}],
          pl \in [1..t -> (1..nv) \X (GoodRawQuirks \cup {BadRawQuirk})] :
         /\ IsPlacement(pl)
         /\ (\E i \in 1..t : pl[i][2] = BadRawQuirk) => t <= 2
         /\ (\E i, j \in 1..nv : i # j /\ names[i] = names[j]) => t <= 2
         /\ chassis = << <<97, 116, 108, 97, 115>>, ChassisJson(names, pl) >>
  /\ quirk_dict = << >>
  /\ shared_quirks = << >>
  /\ pool = << >>
  /\ pc = "Battlemech.init"
  /\ raised = "none"
  /\ pod_dict = << >>
  /\ omnipod = NoPod
  /\ NoOmnimech
  /\ NoMech
  /\ NoBatch

\* Battlemech.__init__ up to the call of _build_matrix (lines 157-161).
BattleConstruct ==
  /\ pc = "Battlemech.init"
  /\ name' = Upper(chassis[1])
  /\ \E d \in {SortedQuirkDict(QuirkJsonDict(chassis[2]))} :
         IF d.ok
         THEN /\ quirk_dict' = d.dict
              /\ pc' = "Battlemech.build"
              /\ UNCHANGED raised
         ELSE /\ quirk_dict' = d.dict
              /\ raised' = d.err
              /\ pc' = "Battlemech.init.raised"
  /\ UNCHANGED << chassis, shared_quirks, pool, idx, calls, string_matrix,
                  podVars, omniVars, batchVars >>

\* _build_matrix is entered: shared_quirks = [] and the flattened list of
\* line 167 is built (lines 165-167).  The first call is the constructor's.
BattleBuildStart ==
  /\ pc = "Battlemech.build"
  /\ shared_quirks' = << >>
  /\ pool' = Flatten(quirk_dict)
  /\ idx' = 1
  /\ calls' = calls + 1
  /\ pc' = "Battlemech.loop"
  /\ UNCHANGED << raised, chassis, quirk_dict, name,
                  string_matrix, podVars, omniVars, batchVars >>

\* One iteration of the loop of lines 167-171.
BattleLoopStep ==
  /\ pc = "Battlemech.loop"
  /\ idx <= Len(pool)
  /\ \E body \in {BattleLoopBody(quirk_dict, shared_quirks, pool[idx])} :
         /\ shared_quirks' = body.shared
         /\ quirk_dict' = body.dict
         /\ IF body.ok
            THEN /\ idx' = idx + 1
                 /\ UNCHANGED << pc, raised >>
            ELSE /\ raised' = "ValueError"
                 /\ pc' = "Battlemech.remove.raised"
                 /\ UNCHANGED idx
  /\ UNCHANGED << chassis, pool, calls, name,
                  string_matrix, podVars, omniVars, batchVars >>

\* The loop is over: the rows, the SHARED row, the strings and the header
\* (lines 174-183); the caller stores the result in self.matrix.
BattleFinish ==
  /\ pc = "Battlemech.loop"
  /\ idx > Len(pool)
  /\ string_matrix' = BattleStringMatrix(name, quirk_dict, shared_quirks)
  /\ pc' = "Battlemech.done"
  /\ UNCHANGED << raised, battleVars, idx, calls, name, podVars, omniVars, batchVars >>

\* _build_matrix is called again on the built object.
BattleBuildAgain ==
  /\ pc = "Battlemech.done"
  /\ calls < MaxCalls
  /\ pc' = "Battlemech.build"
  /\ UNCHANGED << raised, battleVars, mechVars, podVars, omniVars, batchVars >>

NextBattle ==
  \/ BattleConstruct
  \/ BattleBuildStart
  \/ BattleLoopStep
  \/ BattleFinish
  \/ BattleBuildAgain

SpecBattle == InitBattle /\ [][NextBattle]_vars

\* ==================================================== claims on Battlemech
\* The per-variant lists as __init__ leaves them, before _build_matrix.
OriginalDict == SortedQuirkDict(QuirkJsonDict(chassis[2])).dict

Count(q, list) == Cardinality({i \in 1..Len(list) : list[i] = q})

InEvery(q, d) == \A i \in 1..Len(d) : InList(q, d[i][2])

InFirstBuild ==
  /\ calls = 1
  /\ pc \in {"Battlemech.loop", "Battlemech.remove.raised", "Battlemech.done",
             "Battlemech.build"}

\* C5: in the Battlemech reduction a modifier is in the SHARED row if and
\* only if it is (by name and value) in every variant's original list:
\* nothing else is ever put there, and when the reduction is over every such
\* modifier is there.
C5_SharedIffInEveryOriginal ==
  InFirstBuild =>
    \A orig \in {OriginalDict} :
      /\ \A i \in 1..Len(shared_quirks) : InEvery(shared_quirks[i], orig)
      /\ pc = "Battlemech.done" =>
           \A v \in 1..Len(orig) : \A j \in 1..Len(orig[v][2]) :
             InEvery(orig[v][2][j], orig) => InList(orig[v][2][j], shared_quirks)

\* A finished reduction over two variants with a shared modifier and a
\* modifier that only one variant has.
C5_Witness ==
  /\ pc = "Battlemech.done"
  /\ calls = 1
  /\ shared_quirks # << >>
  /\ LET orig == OriginalDict
     IN  /\ Len(orig) = 2
         /\ \E j \in 1..Len(orig[1][2]) : ~InList(orig[1][2][j], orig[2][2])

\* The list left when, of every modifier q, the first Count(q, shared)
\* occurrences are taken out of orig.
WithoutFirst(orig, shared) ==
  LET keep == {j \in 1..Len(orig) :
                 Cardinality({k \in 1..j : orig[k] = orig[j]}) > Count(orig[j], shared)}
      F[j \in 0..Len(orig)] ==
        IF j = 0 THEN << >>
        ELSE IF j \in keep THEN Append(F[j - 1], orig[j]) ELSE F[j - 1]
  IN  F[Len(orig)]

\* C10: the Battlemech reduction never fails in a removal, and when it is
\* over every variant's list is its original list without the first
\* occurrences promoted: for each modifier the occurrences left are the
\* original ones minus those in the SHARED row, in the original order.
C10_RemovesWhatIsPromoted ==
  /\ pc # "Battlemech.remove.raised"
  /\ (pc = "Battlemech.done" /\ calls = 1) =>
       \A orig \in {OriginalDict} :
         /\ Len(quirk_dict) = Len(orig)
         /\ \A v \in 1..Len(orig) :
              /\ quirk_dict[v][1] = orig[v][1]
              /\ quirk_dict[v][2] = WithoutFirst(orig[v][2], shared_quirks)
              /\ \A j \in 1..Len(orig[v][2]) :
                   Count(orig[v][2][j], quirk_dict[v][2])
                     = Count(orig[v][2][j], orig[v][2]) - Count(orig[v][2][j], shared_quirks)

\* A finished reduction where a variant held a modifier twice with another
\* modifier between the two: the first occurrence was promoted, and the list
\* left is the other modifier followed by the second occurrence (taking the
\* last occurrence instead would leave them the other way round).
C10_Witness ==
  /\ pc = "Battlemech.done"
  /\ calls = 1
  /\ LET orig == OriginalDict
     IN  /\ Len(orig) = 2
         /\ \E v \in 1..2 : \E j, k, l \in 1..Len(orig[v][2]) :
              /\ j < k /\ k < l
              /\ orig[v][2][j] = orig[v][2][l]
              /\ orig[v][2][k] # orig[v][2][j]
              /\ Count(orig[v][2][j], orig[v][2]) = 2
              /\ Count(orig[v][2][j], shared_quirks) = 1
              /\ Count(orig[v][2][k], shared_quirks) = 0
              /\ Count(orig[v][2][j], pool) = 3
              /\ quirk_dict[v][2] = << orig[v][2][k], orig[v][2][l] >>

\* ================================================================ Omnimech
RECURSIVE MakePods(_)
\* [Omnipod(pod) for pod in pod_dict.values()]: the first failure raises.
MakePods(raw) ==
  IF raw = << >> THEN Ok(<< >>)
  ELSE Then(Omnipod(Head(raw)),
            LAMBDA pod : Then(MakePods(Tail(raw)), LAMBDA rest : Ok(<< pod >> \o rest)))

\* Omnimech._find_pod: a reference to (the index of) the first matching pod;
\* next() on the exhausted generator raises StopIteration.
FindPod(pods, variant, component) ==
  LET hits == {i \in 1..Len(pods) :
                 variant = pods[i].variant /\ component = pods[i].component}
  IN  IF hits = {} THEN Raise("StopIteration")
      ELSE Ok(CHOOSE i \in hits : \A j \in hits : i <= j)

RECURSIVE FindRow(_, _, _)
\* [self._find_pod(variant, component) for component in Component]
FindRow(pods, variant, components) ==
  IF components = << >> THEN Ok(<< >>)
  ELSE Then(FindPod(pods, variant, Head(components)),
            LAMBDA pod : Then(FindRow(pods, variant, Tail(components)),
                              LAMBDA rest : Ok(<< pod >> \o rest)))

RECURSIVE BuildRowsSkipping(_, _)
BuildRowsSkipping(pods, sortedVariants) ==
  IF sortedVariants = << >> THEN Ok(<< >>)
  ELSE LET row == FindRow(pods, Head(sortedVariants), Component)
           rest == BuildRowsSkipping(pods, Tail(sortedVariants))
       IN  IF ~row.ok THEN rest
           ELSE Ok(<< [variant |-> Head(sortedVariants), pods |-> row.val] >> \o rest.val)

RECURSIVE BuildRows(_, _)
\* The loop of lines 199-202 over sorted(self.variants).
BuildRows(pods, sortedVariants) ==
  IF sortedVariants = << >> THEN Ok(<< >>)
  ELSE Then(FindRow(pods, Head(sortedVariants), Component),
            LAMBDA row : Then(BuildRows(pods, Tail(sortedVariants)),
                              LAMBDA rest : Ok(<< [variant |-> Head(sortedVariants),
                                                   pods |-> row] >> \o rest)))

\* list(zip(*matrix))[1:]: the number of columns, and the pod references of
\* column c from the first row to the last.
NumColumns(m) == IF m = << >> THEN 0 ELSE Len(m[1].pods)
Column(m, c) == [r \in 1..Len(m) |-> m[r].pods[c]]

IsCandidateAlways(quirk) == TRUE

\* Lines 211-213: a quirk whose name holds 'HARDPOINTS' is skipped.
IsCandidate(quirk) == ~Contains(quirk.name, HARDPOINTS)

\* component_quirks of lines 208-213 for the pods of one column.
ComponentQuirks(pods, column) ==
  {q \in UNION {{pods[column[r]].quirks[i] : i \in 1..Len(pods[column[r]].quirks)} :
                  r \in 1..Len(column)} : IsCandidate(q)}

InSomePod(quirk, pods, column) ==
  \E r \in 1..Len(column) : InList(quirk, pods[column[r]].quirks)

\* all(quirk in pod.quirks for pod in component)
InEveryPod(quirk, pods, column) ==
  \A r \in 1..Len(column) : InList(quirk, pods[column[r]].quirks)

RECURSIVE Perms(_)
\* The orders in which a set can be iterated.
Perms(S) ==
  IF S = {} THEN {<< >>}
  ELSE UNION {{<< x >> \o p : p \in Perms(S \ {x})} : x \in S}

\* sorted(shared_component_quirks): the shared quirks by name; quirks of one
\* name stay in the iteration order of the set, which is not fixed.
SharedComponentQuirks(pods, column) ==
  {s \in Perms({q \in ComponentQuirks(pods, column) : InEveryPod(q, pods, column)}) :
     IsSortedByName(s)}

KeepsAll(quirk, shared) == TRUE

\* `quirk not in shared_component_quirks`
Keeps(quirk, shared) == ~InList(quirk, shared)

\* Lines 223-226: the pods of the column get their non-shared quirks.
OverwriteQuirks(pods, column, shared) ==
  [i \in 1..Len(pods) |->
     IF \E r \in 1..Len(column) : column[r] = i
     THEN [pods[i] EXCEPT !.quirks = SelectSeq(pods[i].quirks, LAMBDA q : Keeps(q, shared))]
     ELSE pods[i]]

\* The string matrix of Omnimech._build_matrix (lines 227-232).  The first
\* cell of shared_row is the text '<b>SHARED</b>'.
OmniStringMatrix(mech_name, pods, m, shared) ==
  << << mech_name >> \o [c \in 1..Len(Component) |-> ComponentStr(Component[c])] >>
  \o [r \in 1..Len(m) |->
        << m[r].variant >>
        \o [c \in 1..Len(m[r].pods) |-> QuirksString(pods[m[r].pods[c]].quirks)]]
  \o << << shared[1] >> \o [c \in 1..(Len(shared) - 1) |-> QuirksString(shared[c + 1])] >>

\* The raw pod of slot i: variant by variant, and within a variant the
\* components in order.
SlotVariant(i) == VariantNames[((i - 1) \div Len(Component)) + 1]
SlotComponent(i) == Component[((i - 1) % Len(Component)) + 1]

\* The raw quirk records of a unit are on its 'head' and 'right_arm' pods.
QuirkSlots(nv) == {(v - 1) * Len(Component) + c : v \in 1..nv, c \in 1..2}

OneBeam == << [type |-> <<66, 69, 65, 77>>, count |-> <<49>>] >>

RawPods(n, pl, hp, missing) ==
  LET slots == SelectSeq([i \in 1..n |-> i], LAMBDA i : i # missing)
  IN  [j \in 1..Len(slots) |->
         RawPodDict(SlotComponent(slots[j]).value, SlotVariant(slots[j]),
                    PlacedOn(pl, slots[j]),
                    IF slots[j] \in hp THEN OneBeam ELSE << >>, 0, TRUE)]

\* The raw data of a unit: nv variants with a pod for each component and
\* quirk records placed on the pods.  One beam hardpoint is on no pod, on the
\* first pod of the first variant, or on the first pod of every variant; or
\* one pod is left out of a unit of at most one quirk record.
InitOmni ==
  /\ \E nv \in 0..NumVariants, t \in 0..MaxUnitQuirks :
       \E pl \in [1..t -> QuirkSlots(nv) \X UnitRawQuirks] :
         /\ IsPlacement(pl)
         /\ \E hp \in {{}, {v \in {1} : nv > 0},
                        {(v - 1) * Len(Component) + 1 : v \in 1..nv}},
               missing \in 0..(nv * Len(Component)) :
              /\ hp # {} => t < MaxUnitQuirks
              /\ missing # 0 => (hp = {} /\ t <= 1)
              /\ mech_tuple = << <<100, 105, 114, 101, 32, 119, 111, 108, 102>>,
                                 RawPods(nv * Len(Component), pl, hp, missing) >>
  /\ omnipods = << >>
  /\ variants = {}
  /\ matrix = << >>
  /\ shared_row = << >>
  /\ pc = "Omnimech.init"
  /\ raised = "none"
  /\ pod_dict = << >>
  /\ omnipod = NoPod
  /\ NoBattlemech
  /\ NoMech
  /\ NoBatch

\* Omnimech.__init__ up to the call of _build_matrix (lines 188-190).
OmniConstruct ==
  /\ pc = "Omnimech.init"
  /\ name' = Upper(mech_tuple[1])
  /\ \E pods \in {MakePods(mech_tuple[2])} :
         IF pods.ok
         THEN /\ omnipods' = pods.val
              /\ variants' = {pods.val[i].variant : i \in 1..Len(pods.val)}
              /\ pc' = "Omnimech.build"
              /\ UNCHANGED raised
         ELSE /\ raised' = pods.err
              /\ pc' = "Omnimech.init.raised"
              /\ UNCHANGED << omnipods, variants >>
  /\ UNCHANGED << mech_tuple, matrix, shared_row, idx, calls, string_matrix,
                  podVars, battleVars, batchVars >>

\* _build_matrix is entered: the rows of lines 198-202 and the start of the
\* SHARED row (line 205).  The first call is the constructor's.
OmniBuildRows ==
  /\ pc = "Omnimech.build"
  /\ calls' = calls + 1
  /\ \E rows \in {BuildRows(omnipods, SortedStrs(variants))} :
         IF rows.ok
         THEN /\ matrix' = rows.val
              /\ shared_row' = << <<60, 98, 62, 83, 72, 65, 82, 69, 68, 60, 47, 98, 62>> >>
              /\ idx' = 1
              /\ pc' = "Omnimech.columns"
              /\ UNCHANGED raised
         ELSE /\ raised' = rows.err
              /\ pc' = "Omnimech.find_pod.raised"
              /\ UNCHANGED << matrix, shared_row, idx >>
  /\ UNCHANGED << mech_tuple, omnipods, variants, name,
                  string_matrix, podVars, battleVars, batchVars >>

\* One iteration of the loop over the columns (lines 207-226).
OmniReduceColumn ==
  /\ pc = "Omnimech.columns"
  /\ idx <= NumColumns(matrix)
  /\ \E column \in {Column(matrix, idx)} :
       \E shared \in SharedComponentQuirks(omnipods, column) :
         /\ shared_row' = Append(shared_row, shared)
         /\ omnipods' = OverwriteQuirks(omnipods, column, shared)
  /\ idx' = idx + 1
  /\ UNCHANGED << pc, raised, mech_tuple, variants, matrix, calls, name, string_matrix,
                  podVars, battleVars, batchVars >>

\* The loop is over: the SHARED row is appended, the cells become strings and
\* the header is put first (lines 227-232); the caller stores the result in
\* self.matrix.
OmniFinish ==
  /\ pc = "Omnimech.columns"
  /\ idx > NumColumns(matrix)
  /\ string_matrix' = OmniStringMatrix(name, omnipods, matrix, shared_row)
  /\ pc' = "Omnimech.done"
  /\ UNCHANGED << raised, omniVars, idx, calls, name, podVars, battleVars, batchVars >>

\* _build_matrix is called again on the built object.
OmniBuildAgain ==
  /\ pc = "Omnimech.done"
  /\ calls < MaxCalls
  /\ pc' = "Omnimech.build"
  /\ UNCHANGED << raised, omniVars, mechVars, podVars, battleVars, batchVars >>

NextOmni ==
  \/ OmniConstruct
  \/ OmniBuildRows
  \/ OmniReduceColumn
  \/ OmniFinish
  \/ OmniBuildAgain

SpecOmni == InitOmni /\ [][NextOmni]_vars

\* Both kinds of unit.
Init == InitOmni \/ InitBattle
Next == NextOmni \/ NextBattle
Spec == Init /\ [][Next]_vars

\* ====================================================== claims on Omnimech
\* The pods as Omnipod.__init__ leaves them, before _build_matrix.
OriginalPods == MakePods(mech_tuple[2]).val

InReduction == pc \in {"Omnimech.columns", "Omnimech.done"}

\* The columns reduced so far, and the pod reference of row r, column c.
ReducedColumns == 1..(Len(shared_row) - 1)
PodAt(r, c) == matrix[r].pods[c]

\* C1: after the Omnimech reduction of a column, no modifier (by name and
\* value) is both in a variant's remaining pod list of that column and in
\* the column's SHARED cell.
C1_NoModifierInPodAndShared ==
  InReduction =>
    \A c \in ReducedColumns : \A r \in 1..Len(matrix) :
      \A i \in 1..Len(omnipods[PodAt(r, c)].quirks) :
        ~InList(omnipods[PodAt(r, c)].quirks[i], shared_row[c + 1])

\* A finished reduction of two variants where a pod held a shared modifier
\* twice.
C1_Witness ==
  /\ pc = "Omnimech.done"
  /\ calls = 1
  /\ Len(matrix) = 2
  /\ LET orig == OriginalPods
     IN  \E c \in ReducedColumns : \E r \in 1..2 :
           \E i \in 1..Len(shared_row[c + 1]) :
             /\ Count(shared_row[c + 1][i], orig[PodAt(r, c)].quirks) = 2
             /\ Count(shared_row[c + 1][i], omnipods[PodAt(r, c)].quirks) = 0

IsHardpoints(q) == q.name = HardpointsName

\* C2: the synthetic HARDPOINTS modifier is never in a cell of the SHARED
\* row, also when every pod of the column carries the same one; when a
\* reduction is over each pod holds the HARDPOINTS modifier it was built
\* with.
C2_HardpointsNeverShared ==
  InReduction =>
    /\ \A c \in ReducedColumns :
         \A i \in 1..Len(shared_row[c + 1]) : ~IsHardpoints(shared_row[c + 1][i])
    /\ pc = "Omnimech.done" =>
         \A orig \in {OriginalPods} :
           \A p \in 1..Len(orig) :
             SelectSeq(omnipods[p].quirks, IsHardpoints)
               = SelectSeq(orig[p].quirks, IsHardpoints)

\* A finished reduction of two variants whose pods of the first column carry
\* the same HARDPOINTS modifier.
C2_Witness ==
  /\ pc = "Omnimech.done"
  /\ calls = 1
  /\ Len(matrix) = 2
  /\ LET orig == OriginalPods
     IN  \E i \in 1..Len(omnipods[PodAt(1, 1)].quirks) :
           /\ IsHardpoints(omnipods[PodAt(1, 1)].quirks[i])
           /\ InList(omnipods[PodAt(1, 1)].quirks[i], omnipods[PodAt(2, 1)].quirks)
           /\ InList(omnipods[PodAt(1, 1)].quirks[i], orig[PodAt(2, 1)].quirks)

\* The modifiers of the pods that are not HARDPOINTS entries.
PlainQuirks(pods) ==
  {q \in UNION {{pods[p].quirks[i] : i \in 1..Len(pods[p].quirks)} : p \in 1..Len(pods)} :
     ~Contains(q.name, HARDPOINTS)}

\* C3: when the reduction is over, the SHARED cell of a column holds a
\* non-HARDPOINTS modifier if and only if every pod of that column held it,
\* whatever the other columns hold; a modifier that is not shared in the
\* column is in exactly the cells of the variants that held it.
C3_SharedIffInEveryPodOfColumn ==
  (pc = "Omnimech.done" /\ calls = 1) =>
    \A orig \in {OriginalPods} : \A plain \in {PlainQuirks(orig)} :
      LET inEvery(q, c) == \A r \in 1..Len(matrix) : InList(q, orig[PodAt(r, c)].quirks)
      IN  \A c \in ReducedColumns :
            /\ \A i \in 1..Len(shared_row[c + 1]) : shared_row[c + 1][i] \in plain
            /\ \A q \in plain :
                 /\ InList(q, shared_row[c + 1]) <=> inEvery(q, c)
                 /\ ~inEvery(q, c) =>
                      \A r \in 1..Len(matrix) :
                        InList(q, omnipods[PodAt(r, c)].quirks)
                          <=> InList(q, orig[PodAt(r, c)].quirks)

\* A finished reduction of two variants where a modifier is shared in the
\* second column and, in the first, is held by the first variant only.
C3_Witness ==
  /\ pc = "Omnimech.done"
  /\ calls = 1
  /\ Len(matrix) = 2
  /\ \E i \in 1..Len(shared_row[3]) :
       /\ ~InList(shared_row[3][i], shared_row[2])
       /\ InList(shared_row[3][i], omnipods[PodAt(1, 1)].quirks)
       /\ omnipods[PodAt(2, 1)].quirks = << >>

\* The (variant, component name) pairs of raw pods.
RawPairs(raw) ==
  {<< DictGet(raw[o], "details").set, DictGet(raw[o], "configuration").name >> :
     o \in 1..Len(raw)}

\* Some variant of the data has no pod for some component of the enum, and
\* every pod of the data can be built.
MissingPair ==
  /\ mech_tuple # << >>
  /\ LET pairs == RawPairs(mech_tuple[2])
     IN  \E pair \in pairs : \E c \in 1..Len(Component) :
           << pair[1], Component[c].value >> \notin pairs
  /\ MakePods(mech_tuple[2]).ok

\* C6: when a variant has no pod for a component, the construction of the
\* Omnimech fails in the lookup while the matrix is built (_find_pod raises
\* StopIteration), and no matrix is ever produced for the unit.
C6_MissingPodFailsConstruction ==
  MissingPair =>
    /\ pc \in {"Omnimech.init", "Omnimech.build", "Omnimech.find_pod.raised"}
    /\ pc = "Omnimech.find_pod.raised" => raised = "StopIteration"
    /\ matrix = << >>
    /\ string_matrix = << >>

\* The construction of a unit with two variants, one of them without a pod
\* for a component, has failed.
C6_Witness ==
  /\ MissingPair
  /\ pc = "Omnimech.find_pod.raised"
  /\ raised = "StopIteration"
  /\ Cardinality(variants) = 2

\* C4: the promotion is idempotent in both reductions: a second call of
\* _build_matrix on the reduced object removes nothing from any list and
\* puts nothing in the SHARED row.
C4_SecondReductionChangesNothing ==
  [][calls >= 2 =>
       /\ omnipods' = omnipods
       /\ quirk_dict' = quirk_dict
       /\ shared_quirks' = << >>
       /\ \A c \in 2..Len(shared_row') : shared_row'[c] = << >>]_vars

\* A second Battlemech reduction is over, where the first one left a
\* modifier in a variant's list that every original list held.
C4_Witness ==
  /\ pc = "Battlemech.done"
  /\ calls = 2
  /\ Len(quirk_dict) = 2
  /\ LET orig == OriginalDict
     IN  \E v \in 1..2 : \E j \in 1..Len(quirk_dict[v][2]) : InEvery(quirk_dict[v][2][j], orig)

\* ============================================ units built in one piece
RECURSIVE BattleLoop(_, _, _)
\* The whole loop of lines 167-171 over the flattened list.
BattleLoop(d, shared, rest) ==
  IF rest = << >> THEN [ok |-> TRUE, dict |-> d, shared |-> shared]
  ELSE LET body == BattleLoopBody(d, shared, Head(rest))
       IN  IF ~body.ok THEN body ELSE BattleLoop(body.dict, body.shared, Tail(rest))

\* Battlemech(name, chassis_json): the object, or the exception raised.
Battlemech(mech_name, chassis_json) ==
  LET d == SortedQuirkDict(QuirkJsonDict(chassis_json))
  IN  IF ~d.ok THEN Raise(d.err)
      ELSE LET done == BattleLoop(d.dict, << >>, Flatten(d.dict))
           IN  IF ~done.ok THEN Raise("ValueError")
               ELSE Ok([name |-> Upper(mech_name),
                        matrix |-> BattleStringMatrix(Upper(mech_name), done.dict,
                                                      done.shared)])

RECURSIVE ReduceColumns(_, _, _, _)
\* The loop of lines 207-226 from column c on: the (pods, shared_row) pairs
\* it can end with.
ReduceColumns(pods, m, c, shared) ==
  IF c > NumColumns(m) THEN {<< pods, shared >>}
  ELSE UNION {ReduceColumns(OverwriteQuirks(pods, Column(m, c), sh), m, c + 1,
                            Append(shared, sh)) :
                sh \in SharedComponentQuirks(pods, Column(m, c))}

\* Omnimech(mech_tuple): the objects it can build, or the exception raised.
Omnimech(tuple) ==
  LET pods == MakePods(tuple[2])
  IN  IF ~pods.ok THEN {pods}
      ELSE LET rows == BuildRows(pods.val,
                                 SortedStrs({pods.val[i].variant : i \in 1..Len(pods.val)}))
           IN  IF ~rows.ok THEN {rows}
               ELSE {Ok([name |-> Upper(tuple[1]),
                         matrix |-> OmniStringMatrix(Upper(tuple[1]), r[1], rows.val, r[2])]) :
                       r \in ReduceColumns(pods.val, rows.val, 1,
                              << <<60, 98, 62, 83, 72, 65, 82, 69, 68, 60, 47, 98, 62>> >>)}

\* ======================================================= the table batches
\* sorted(mechs): Mech.__lt__ compares the names, as Quirk.__lt__ does.
SortMechs(list) == SortQuirks(list)

\* '\n<!DOCTYPE html>\n<html>\n<head>\n    <title>'
TemplateHead ==
  <<10, 60, 33, 68, 79, 67, 84, 89, 80, 69, 32, 104, 116, 109, 108, 62, 10, 60, 104,
    116, 109, 108, 62, 10, 60, 104, 101, 97, 100, 62, 10, 32, 32, 32, 32, 60, 116, 105,
    116, 108, 101, 62>>
\* ' Mech QuirkTable</title>\n    <link rel="stylesheet" type="text/css"
\*  href="style.css">\n</head>\n<body>\n    '
TemplateMid ==
  <<32, 77, 101, 99, 104, 32, 81, 117, 105, 114, 107, 84, 97, 98, 108, 101, 60, 47, 116,
    105, 116, 108, 101, 62, 10, 32, 32, 32, 32, 60, 108, 105, 110, 107, 32, 114, 101, 108,
    61, 34, 115, 116, 121, 108, 101, 115, 104, 101, 101, 116, 34, 32, 116, 121, 112, 101,
    61, 34, 116, 101, 120, 116, 47, 99, 115, 115, 34, 32, 104, 114, 101, 102, 61, 34, 115,
    116, 121, 108, 101, 46, 99, 115, 115, 34, 62, 10, 60, 47, 104, 101, 97, 100, 62, 10,
    60, 98, 111, 100, 121, 62, 10, 32, 32, 32, 32>>
\* '\n</body>\n</html>\n'
TemplateTail == <<10, 60, 47, 98, 111, 100, 121, 62, 10, 60, 47, 104, 116, 109, 108, 62, 10>>

\* html_template % (name, table)
HtmlTemplate(mech_name, table) ==
  TemplateHead \o mech_name \o TemplateMid \o table \o TemplateTail

\* create_html_table
CreateHtmlTable(list_of_lists) ==
  <<60, 116, 97, 98, 108, 101, 32, 99, 108, 97, 115, 115, 61, 34, 99, 115, 115, 116, 97,
    98, 108, 101, 34, 62>>
  \o Join([r \in 1..Len(list_of_lists) |->
             <<32, 32, 32, 32, 60, 116, 114, 62, 60, 116, 100, 62>>
             \o Join(list_of_lists[r],
                     <<32, 32, 32, 32, 32, 32, 32, 32, 60, 47, 116, 100, 62, 60, 116, 100, 62>>)
             \o <<32, 32, 32, 32, 60, 47, 116, 100, 62, 60, 47, 116, 114, 62>>],
          << >>)
  \o <<60, 47, 116, 97, 98, 108, 101, 62>>

\* 'tables/%s.html' % mech.name.lower()
TablePath(mech) ==
  <<116, 97, 98, 108, 101, 115, 47>> \o Lower(mech.name) \o <<46, 104, 116, 109, 108>>

\* with open(path, 'w') as f: f.write(html_template % (mech.name, html_table))
WriteTable(fs, mech) ==
  DictPut(fs, TablePath(mech), HtmlTemplate(mech.name, CreateHtmlTable(mech.matrix)))

\* ('iic', 'kodiak', 'spirit bear')
battlemech_indicators ==
  << <<105, 105, 99>>, <<107, 111, 100, 105, 97, 107>>,
     <<115, 112, 105, 114, 105, 116, 32, 98, 101, 97, 114>> >>

\* The classification of one record in get_mech_list: "skip" for a champion
\* mech, else the list it goes to.
MechClass(mech_json) ==
  LET lname == Lower(mech_json.translated_name)
  IN  IF Contains(lname, <<40, 99, 41>>) THEN "skip"
      ELSE IF /\ mech_json.faction = <<67, 108, 97, 110>>
              /\ ~\E i \in 1..Len(battlemech_indicators) :
                    Contains(lname, battlemech_indicators[i])
           THEN "omnimech"
           ELSE "battlemech"

\* get_mech_list()[0]: the battlemech records, in the order of the data.
BattlemechList(list) == SelectSeq(list, LAMBDA m : MechClass(m) = "battlemech")

RECURSIVE GroupByFamily(_)
\* chassises[mech['family']].append(mech) for every battlemech record.
GroupByFamily(list) ==
  IF list = << >> THEN << >>
  ELSE LET before == GroupByFamily(SubSeq(list, 1, Len(list) - 1))
           mech == list[Len(list)]
       IN  IF \E i \in 1..Len(before) : before[i][1] = mech.family
           THEN DictPut(before, mech.family, Append(DictGet(before, mech.family), mech))
           ELSE DictPut(before, mech.family, << mech >>)

\* The raw pod sets of the batch: one variant with a pod for each component,
\* at most one raw quirk record, possibly without the 'head' or the
\* 'right_arm' pod, or with a component name the enum does not have ('tail').
RawUnits ==
  LET placements == UNION {[1..t -> QuirkSlots(1) \X (UnitRawQuirks \cup {BadRawQuirk})] :
                             t \in 0..1}
      withTail(pods) ==
        [j \in 1..Len(pods) |->
           IF j = 1
           THEN RawPodDict(<<116, 97, 105, 108>>, SlotVariant(1), << >>, << >>, 0, TRUE)
           ELSE pods[j]]
  IN  {RawPods(Len(Component), pl, {}, missing) :
         pl \in placements, missing \in {0} \cup QuirkSlots(1)}
      \cup {withTail(RawPods(Len(Component), << >>, {}, 0))}

\* The chassis names of the omnipod data: 'dire wolf', 'j\u00e4ger' (with a
\* letter above ASCII), 'kit fox'.
ChassisNames ==
  << <<100, 105, 114, 101, 32, 119, 111, 108, 102>>, <<106, 228, 103, 101, 114>>,
     <<107, 105, 116, 32, 102, 111, 120>> >>

\* The mech records of the batch: names 'A', 'A(C)' and 'B IIC', factions
\* 'InnerSphere' and 'Clan', families 'atlas' and 'raven', at most one raw
\* quirk record.
RawMechs ==
  { [translated_name |-> n, faction |-> f, family |-> fam, details |-> [quirks |-> q]] :
      n \in {<<65>>, <<65, 40, 67, 41>>, <<66, 32, 73, 73, 67>>},
      f \in {<<73, 110, 110, 101, 114, 83, 112, 104, 101, 114, 101>>, <<67, 108, 97, 110>>},
      fam \in {<<97, 116, 108, 97, 115>>, <<114, 97, 118, 101, 110>>},
      q \in SeqsUpTo({[translated_name |-> <<72, 69, 65, 84>>, value |-> <<48, 46, 50, 53>>],
                      BadRawQuirk}, 1) }

NoUnit ==
  /\ pod_dict = << >>
  /\ omnipod = NoPod
  /\ NoOmnimech
  /\ NoBattlemech
  /\ NoMech

InitOmniTables ==
  /\ \E n \in 0..MaxUnits : \E data \in [1..n -> RawUnits] :
       all_omnipods = [i \in 1..n |-> << ChassisNames[i], data[i] >>]
  /\ mech_json_list = << >>
  /\ chassises = << >>
  /\ mechs = << >>
  /\ files = << >>
  /\ count = -1
  /\ pc = "create_omnimech_tables.build"
  /\ raised = "none"
  /\ NoUnit

InitBattleTables ==
  /\ \E n \in 0..MaxUnits : mech_json_list \in [1..n -> RawMechs]
  /\ all_omnipods = << >>
  /\ chassises = << >>
  /\ mechs = << >>
  /\ files = << >>
  /\ count = -1
  /\ pc = "create_battlemech_tables.group"
  /\ raised = "none"
  /\ NoUnit

\* One element of the list comprehension of line 273: an exception leaves
\* create_omnimech_tables.
OmniTablesBuild ==
  /\ pc = "create_omnimech_tables.build"
  /\ Len(mechs) < Len(all_omnipods)
  /\ \E mech \in Omnimech(all_omnipods[Len(mechs) + 1]) :
       IF mech.ok
       THEN /\ mechs' = Append(mechs, mech.val)
            /\ UNCHANGED << pc, raised >>
       ELSE /\ raised' = mech.err
            /\ pc' = "create_omnimech_tables.raised"
            /\ UNCHANGED mechs
  /\ UNCHANGED << all_omnipods, mech_json_list, chassises, files, count, idx, calls, name,
                  string_matrix, podVars, omniVars, battleVars >>

\* sorted(omnimechs), line 274.
OmniTablesSort ==
  /\ pc = "create_omnimech_tables.build"
  /\ Len(mechs) = Len(all_omnipods)
  /\ mechs' = SortMechs(mechs)
  /\ idx' = 1
  /\ pc' = "create_omnimech_tables.write"
  /\ UNCHANGED << raised, all_omnipods, mech_json_list, chassises, files, count, calls, name,
                  string_matrix, podVars, omniVars, battleVars >>

\* One iteration of the loop of lines 274-278.
OmniTablesWrite ==
  /\ pc = "create_omnimech_tables.write"
  /\ idx <= Len(mechs)
  /\ files' = WriteTable(files, mechs[idx])
  /\ idx' = idx + 1
  /\ UNCHANGED << pc, raised, all_omnipods, mech_json_list, chassises, mechs, count, calls,
                  name, string_matrix, podVars, omniVars, battleVars >>

\* return len(omnimechs)
OmniTablesReturn ==
  /\ pc = "create_omnimech_tables.write"
  /\ idx > Len(mechs)
  /\ count' = Len(mechs)
  /\ pc' = "create_omnimech_tables.returned"
  /\ UNCHANGED << raised, all_omnipods, mech_json_list, chassises, mechs, files, mechVars,
                  podVars, omniVars, battleVars >>

\* battlemechs, _ = get_mech_list() and the grouping of lines 283-285.
BattleTablesGroup ==
  /\ pc = "create_battlemech_tables.group"
  /\ chassises' = GroupByFamily(BattlemechList(mech_json_list))
  /\ pc' = "create_battlemech_tables.build"
  /\ UNCHANGED << raised, all_omnipods, mech_json_list, mechs, files, count, mechVars,
                  podVars, omniVars, battleVars >>

\* One element of the list comprehension of line 286: an exception leaves
\* create_battlemech_tables.
BattleTablesBuild ==
  /\ pc = "create_battlemech_tables.build"
  /\ Len(mechs) < Len(chassises)
  /\ \E mech \in {Battlemech(chassises[Len(mechs) + 1][1], chassises[Len(mechs) + 1][2])} :
         IF mech.ok
         THEN /\ mechs' = Append(mechs, mech.val)
              /\ UNCHANGED << pc, raised >>
         ELSE /\ raised' = mech.err
              /\ pc' = "create_battlemech_tables.raised"
              /\ UNCHANGED mechs
  /\ UNCHANGED << all_omnipods, mech_json_list, chassises, files, count, idx, calls, name,
                  string_matrix, podVars, omniVars, battleVars >>

\* sorted(battlemechs), line 287.
BattleTablesSort ==
  /\ pc = "create_battlemech_tables.build"
  /\ Len(mechs) = Len(chassises)
  /\ mechs' = SortMechs(mechs)
  /\ idx' = 1
  /\ pc' = "create_battlemech_tables.write"
  /\ UNCHANGED << raised, all_omnipods, mech_json_list, chassises, files, count, calls, name,
                  string_matrix, podVars, omniVars, battleVars >>

\* One iteration of the loop of lines 287-291.
BattleTablesWrite ==
  /\ pc = "create_battlemech_tables.write"
  /\ idx <= Len(mechs)
  /\ files' = WriteTable(files, mechs[idx])
  /\ idx' = idx + 1
  /\ UNCHANGED << pc, raised, all_omnipods, mech_json_list, chassises, mechs, count, calls,
                  name, string_matrix, podVars, omniVars, battleVars >>

\* return len(battlemechs)
BattleTablesReturn ==
  /\ pc = "create_battlemech_tables.write"
  /\ idx > Len(mechs)
  /\ count' = Len(mechs)
  /\ pc' = "create_battlemech_tables.returned"
  /\ UNCHANGED << raised, all_omnipods, mech_json_list, chassises, mechs, files, mechVars,
                  podVars, omniVars, battleVars >>

InitBatch == InitOmniTables \/ InitBattleTables

NextBatch ==
  \/ OmniTablesBuild
  \/ OmniTablesSort
  \/ OmniTablesWrite
  \/ OmniTablesReturn
  \/ BattleTablesGroup
  \/ BattleTablesBuild
  \/ BattleTablesSort
  \/ BattleTablesWrite
  \/ BattleTablesReturn

SpecBatch == InitBatch /\ [][NextBatch]_vars

\* ================================================== claims on the batches
BatchOver ==
  pc \in {"create_omnimech_tables.returned", "create_omnimech_tables.raised",
          "create_battlemech_tables.returned", "create_battlemech_tables.raised"}

HasFile(path) == \E i \in 1..Len(files) : files[i][1] = path

\* C9: when a batch is over, every unit of it that can be constructed has
\* been built and has its table written, whatever happened to the other
\* units of the batch.
C9_FailedUnitAbortsOnlyItself ==
  BatchOver =>
    /\ \A i \in 1..Len(all_omnipods) : \A mech \in Omnimech(all_omnipods[i]) :
         mech.ok => HasFile(TablePath(mech.val))
    /\ \A i \in 1..Len(chassises) :
         LET mech == Battlemech(chassises[i][1], chassises[i][2])
         IN  mech.ok => HasFile(TablePath(mech.val))

====
